---- MODULE Spec2Model ----
(***************************************************************************)
(* WarDragon Analytics collector (src/app/collector.py): the KitHealth     *)
(* state machine, the DatabaseWriter upserts, the KitCollector polling     *)
(* loop and the CollectorService that starts and reloads the collectors,   *)
(* together with the kit administration of src/app/api.py that edits the   *)
(* kits table the collector reloads from.                                  *)
(***************************************************************************)
EXTENDS Integers, Sequences, FiniteSets, TLC

\* ------------------------------------------------------------------------
\* Program constants (collector.py:45-52, the defaults of the environment)
\* ------------------------------------------------------------------------
POLL_INTERVAL == 5
STATUS_POLL_INTERVAL == 30
INITIAL_BACKOFF == 5
MAX_BACKOFF == 300
STALE_THRESHOLD == 60
MAX_RETRIES == 3

\* ------------------------------------------------------------------------
\* Bounds of the model
\* ------------------------------------------------------------------------
\* calls of mark_success/mark_failure on the stand-alone KitHealth
MaxRequests == 8
\* largest value of the clock of the stand-alone KitHealth
MaxClock == 62
\* DatabaseWriter calls in SpecWriter, and the longest batch of one call
MaxWrites == 2
MaxBatch == 2
\* poll cycles one collector may start in SpecPoller
MaxCycles == 7
MaxCollectors == 3
MaxOps == 2
MaxSvcCycles == 1
\* poll cycles one collector may start in SpecLifecycle
MaxLifeCycles == 2
\* poll cycles one collector may start in SpecIsolation
MaxIsoCycles == 3
\* poll cycles one collector may start in SpecStop
MaxStopCycles == 7
\* kit definitions in one kits.yaml
MaxYamlKits == 2
\* poll cycles one collector may start in SpecUptime (fewer than the
\* status_interval_cycles after which a cycle probes /status)
MaxUpCycles == 4

\* Python's None, for a string and for a number or a time
None == "None"
NoNum == -1

Min(a, b) == IF a <= b THEN a ELSE b

VARIABLES
    now,            \* datetime.now(timezone.utc), in seconds
    kh,             \* a KitHealth object driven directly (SpecHealth)
    drones,         \* table drones, unique on (time, kit_id, drone_id)
    signals,        \* table signals, unique on (time, kit_id, freq_mhz)
    system_health,  \* table system_health, unique on (time, kit_id)
    wcalls,         \* DatabaseWriter calls made so far (SpecWriter)
    wret,           \* what the last DatabaseWriter call returned
    wcall,          \* the DatabaseWriter call SpecCalls makes: its arguments
                    \* and what the storage does with each record
    kits,           \* table kits, unique on kit_id
    collectors,     \* every KitCollector created, with the state of its run() task
    svc_kits,       \* CollectorService.kits: indices into collectors
    started,        \* CollectorService.start() has spawned its tasks
    shutdown,       \* shutdown_event.is_set()
    nops,           \* kit administration calls made so far (SpecService)
    db_kits,        \* the kit list of the latest load_config / reload_kits
    sup,            \* where start(), kit_reload_loop, monitor_health and a
                    \* call of shutdown() stand
    pools,          \* the HTTP client and the database engine of the service
    expired,        \* the tasks whose current sleep or wait has run out
    fetch,          \* one call of KitCollector.fetch_json (SpecFetch)
    yaml,           \* the kits.yaml files of the last two loads and what
                    \* _load_yaml_kits returned for them (SpecYaml)
    net             \* what the kit's API answers from now on (SpecUptime)

dataVars == <<drones, signals, system_health>>
writerVars == <<wcalls, wret, wcall>>
svcVars == <<kits, collectors, svc_kits, started, shutdown, nops, db_kits>>
lifeVars == <<sup, pools, expired>>
vars == <<now, kh, dataVars, writerVars, svcVars, lifeVars, fetch, yaml, net>>

\* ------------------------------------------------------------------------
\* class KitHealth
\* ------------------------------------------------------------------------
KitHealth(kit_id) ==
    [kit_id |-> kit_id,
     status |-> "unknown",
     last_seen |-> NoNum,
     last_error |-> None,
     consecutive_failures |-> 0,
     backoff_delay |-> INITIAL_BACKOFF,
     total_requests |-> 0,
     successful_requests |-> 0,
     failed_requests |-> 0]

\* a slip of mark_success: the backoff is not reset
mark_success_keeps_backoff(h, t) ==
    [h EXCEPT !.status = "online",
              !.last_seen = t,
              !.consecutive_failures = 0,
              !.total_requests = @ + 1,
              !.successful_requests = @ + 1,
              !.last_error = None]

mark_success(h, t) ==
    [h EXCEPT !.status = "online",
              !.last_seen = t,
              !.consecutive_failures = 0,
              !.backoff_delay = INITIAL_BACKOFF,
              !.total_requests = @ + 1,
              !.successful_requests = @ + 1,
              !.last_error = None]

\* a slip of mark_failure: the exponent is the failure count before the call
mark_failure_old_exponent(h, error) ==
    [h EXCEPT !.status = "offline",
              !.last_error = error,
              !.consecutive_failures = @ + 1,
              !.total_requests = @ + 1,
              !.failed_requests = @ + 1,
              !.backoff_delay =
                  Min(INITIAL_BACKOFF * (2 ^ h.consecutive_failures), MAX_BACKOFF)]

\* a slip of mark_failure: the failure is not counted in total_requests
mark_failure_uncounted(h, error) ==
    [h EXCEPT !.status = "offline",
              !.last_error = error,
              !.consecutive_failures = @ + 1,
              !.failed_requests = @ + 1,
              !.backoff_delay =
                  Min(INITIAL_BACKOFF * (2 ^ (h.consecutive_failures + 1)), MAX_BACKOFF)]

mark_failure(h, error) ==
    [h EXCEPT !.status = "offline",
              !.last_error = error,
              !.consecutive_failures = @ + 1,
              !.total_requests = @ + 1,
              !.failed_requests = @ + 1,
              !.backoff_delay =
                  Min(INITIAL_BACKOFF * (2 ^ (h.consecutive_failures + 1)), MAX_BACKOFF)]

\* a slip of mark_stale: only a kit recorded online can become stale
mark_stale_online_only(h, t) ==
    IF h.last_seen # NoNum /\ t - h.last_seen > STALE_THRESHOLD
       /\ h.status = "online"
    THEN [h EXCEPT !.status = "stale"]
    ELSE h

mark_stale(h, t) ==
    IF h.last_seen # NoNum /\ t - h.last_seen > STALE_THRESHOLD
    THEN [h EXCEPT !.status = "stale"]
    ELSE h

get_next_poll_delay(h) ==
    IF h.status = "online" THEN 0 ELSE h.backoff_delay

\* ------------------------------------------------------------------------
\* class DatabaseWriter
\* ------------------------------------------------------------------------
\* a value that is no number (a non-numeric string in the JSON payload)
BadNum == -2

\* Python's "a or b" on numbers (None and 0 are falsy) and on strings
OrNum(a, b) == IF a # NoNum /\ a # 0 THEN a ELSE b
OrStr(a, b) == IF a # None /\ a # "" THEN a ELSE b

_parse_timestamp(ts, t) == IF ts # NoNum /\ ts # BadNum THEN ts ELSE t

_safe_float(value) == IF value = NoNum \/ value = BadNum THEN NoNum ELSE value

\* the parameters insert_drones binds for one element of the payload
\* (of the insert-only columns, mac and rssi stand for the others)
DroneRow(kit_id, drone, t) ==
    [time |-> _parse_timestamp(drone.timestamp, t),
     kit_id |-> kit_id,
     drone_id |-> OrStr(drone.drone_id, OrStr(drone.id, OrStr(drone.icao,
                    IF drone.mac = None THEN "unknown" ELSE drone.mac))),
     lat |-> _safe_float(drone.lat),
     lon |-> _safe_float(drone.lon),
     alt |-> _safe_float(OrNum(drone.alt, drone.altitude)),
     speed |-> _safe_float(drone.speed),
     heading |-> _safe_float(drone.heading),
     mac |-> drone.mac,
     rssi |-> _safe_float(drone.rssi),
     track_type |-> IF drone.icao # None /\ drone.icao # "" THEN "aircraft"
                    ELSE IF drone.track_type = None THEN "drone"
                    ELSE drone.track_type]

DroneKey(r) == <<r.time, r.kit_id, r.drone_id>>

\* a slip of the statement: no ON CONFLICT clause, the second row is added
UpsertDroneNoConflict(T, row) == T \cup {row}

\* INSERT INTO drones ... ON CONFLICT (time, kit_id, drone_id) DO UPDATE SET
\* lat, lon, alt, speed, heading
UpsertDrone(T, row) ==
    IF \E r \in T : DroneKey(r) = DroneKey(row)
    THEN {IF DroneKey(r) = DroneKey(row)
          THEN [r EXCEPT !.lat = row.lat, !.lon = row.lon, !.alt = row.alt,
                         !.speed = row.speed, !.heading = row.heading]
          ELSE r : r \in T}
    ELSE T \cup {row}

SignalRow(kit_id, signal, t) ==
    [time |-> _parse_timestamp(signal.timestamp, t),
     kit_id |-> kit_id,
     freq_mhz |-> _safe_float(OrNum(signal.freq_mhz, signal.freq)),
     power_dbm |-> _safe_float(OrNum(signal.power_dbm, signal.power)),
     bandwidth_mhz |-> _safe_float(OrNum(signal.bandwidth_mhz, signal.bandwidth)),
     lat |-> _safe_float(signal.lat),
     lon |-> _safe_float(signal.lon),
     alt |-> _safe_float(signal.alt),
     detection_type |-> IF signal.type = None THEN "analog" ELSE signal.type]

SignalKey(r) == <<r.time, r.kit_id, r.freq_mhz>>

\* INSERT INTO signals ... ON CONFLICT (time, kit_id, freq_mhz) DO UPDATE SET
\* power_dbm
UpsertSignal(T, row) ==
    IF \E r \in T : SignalKey(r) = SignalKey(row)
    THEN {IF SignalKey(r) = SignalKey(row)
          THEN [r EXCEPT !.power_dbm = row.power_dbm]
          ELSE r : r \in T}
    ELSE T \cup {row}

HealthRow(kit_id, status, t) ==
    [time |-> _parse_timestamp(status.timestamp, t),
     kit_id |-> kit_id,
     lat |-> _safe_float(status.gps_lat),
     lon |-> _safe_float(status.gps_lon),
     alt |-> _safe_float(status.gps_alt),
     cpu_percent |-> _safe_float(status.cpu_percent),
     memory_percent |-> _safe_float(status.memory_percent),
     disk_percent |-> _safe_float(status.disk_percent),
     uptime_hours |-> _safe_float(status.uptime_hours),
     temp_cpu |-> _safe_float(status.temp_cpu),
     temp_gpu |-> _safe_float(status.temp_gpu)]

HealthKey(r) == <<r.time, r.kit_id>>

\* INSERT INTO system_health ... ON CONFLICT (time, kit_id) DO UPDATE SET
\* cpu_percent, memory_percent, disk_percent
UpsertHealth(T, row) ==
    IF \E r \in T : HealthKey(r) = HealthKey(row)
    THEN {IF HealthKey(r) = HealthKey(row)
          THEN [r EXCEPT !.cpu_percent = row.cpu_percent,
                         !.memory_percent = row.memory_percent,
                         !.disk_percent = row.disk_percent]
          ELSE r : r \in T}
    ELSE T \cup {row}

\* What the loop body meets for one record: "ok" (executed and committed),
\* "sqlerr" (execute raises SQLAlchemyError: rollback, continue) or "exc"
\* (any other exception, such as the AttributeError of building the
\* parameters of an element that is no JSON object or whose rid is null: it
\* leaves the loop for the outer handler).
Outcomes == {"ok", "sqlerr", "exc"}

RECURSIVE insert_drones_loop(_, _, _, _, _, _)
insert_drones_loop(T, kit_id, recs, outs, inserted, t) ==
    IF recs = <<>> THEN [table |-> T, ret |-> inserted]
    ELSE IF Head(outs) = "exc" THEN [table |-> T, ret |-> 0]
    ELSE IF Head(outs) = "sqlerr"
         THEN insert_drones_loop(T, kit_id, Tail(recs), Tail(outs), inserted, t)
    ELSE insert_drones_loop(UpsertDrone(T, DroneRow(kit_id, Head(recs), t)),
                            kit_id, Tail(recs), Tail(outs), inserted + 1, t)

insert_drones(T, kit_id, recs, outs, t) ==
    IF recs = <<>> THEN [table |-> T, ret |-> 0]
    ELSE insert_drones_loop(T, kit_id, recs, outs, 0, t)

RECURSIVE insert_signals_loop(_, _, _, _, _, _)
insert_signals_loop(T, kit_id, recs, outs, inserted, t) ==
    IF recs = <<>> THEN [table |-> T, ret |-> inserted]
    ELSE IF Head(outs) = "exc" THEN [table |-> T, ret |-> 0]
    ELSE IF Head(outs) = "sqlerr"
         THEN insert_signals_loop(T, kit_id, Tail(recs), Tail(outs), inserted, t)
    ELSE insert_signals_loop(UpsertSignal(T, SignalRow(kit_id, Head(recs), t)),
                             kit_id, Tail(recs), Tail(outs), inserted + 1, t)

insert_signals(T, kit_id, recs, outs, t) ==
    IF recs = <<>> THEN [table |-> T, ret |-> 0]
    ELSE insert_signals_loop(T, kit_id, recs, outs, 0, t)

\* insert_health: True when committed, False on any exception
insert_health(T, kit_id, status, out, t) ==
    IF out = "ok"
    THEN [table |-> UpsertHealth(T, HealthRow(kit_id, status, t)), ret |-> TRUE]
    ELSE [table |-> T, ret |-> FALSE]

\* ------------------------------------------------------------------------
\* Endpoint strings.  An api_url is kept as the parts the code looks at: does
\* it start with "http", its host, does it end with "/".  Two api_urls are
\* the same string iff the three parts agree.
\* ------------------------------------------------------------------------
Url(scheme, host, slash) == [scheme |-> scheme, host |-> host, slash |-> slash]

\* str.rstrip('/')
rstrip_slash(u) == [u EXCEPT !.slash = FALSE]

\* api.py: api_url.rstrip('/'), then "http://" in front unless it starts with http
normalize_url(u) == [rstrip_slash(u) EXCEPT !.scheme = TRUE]

\* ------------------------------------------------------------------------
\* DatabaseWriter.update_kit_status and the kits table
\* ------------------------------------------------------------------------
KitRow(kit_id, name, api_url, location, status, last_seen, enabled) ==
    [kit_id |-> kit_id, name |-> name, api_url |-> api_url,
     location |-> location, status |-> status, last_seen |-> last_seen,
     enabled |-> enabled]

\* an api_url that is None, and the literal 'unknown'
NoUrl == Url(FALSE, None, FALSE)
UnknownUrl == Url(FALSE, "unknown", FALSE)

\* SQL COALESCE(a, b), on a string column and on the api_url column
Coalesce(a, b) == IF a # None THEN a ELSE b
CoalesceUrl(a, b) == IF a # NoUrl THEN a ELSE b

\* INSERT INTO kits (kit_id, name, api_url, location, status, last_seen)
\* VALUES (kit_id, name or kit_id, api_url or 'unknown', location, status,
\* last_seen) ON CONFLICT (kit_id) DO UPDATE SET status, last_seen,
\* name/api_url/location = COALESCE(EXCLUDED.x, kits.x); a new row takes the
\* column default enabled = TRUE.  out = "ok", or the exception is logged.
update_kit_status(T, kit_id, status, last_seen, name, api_url, location, out) ==
    LET ex_name == OrStr(name, kit_id)
        ex_url == IF api_url = NoUrl THEN UnknownUrl ELSE api_url
    IN
    IF out # "ok" THEN T
    ELSE IF \E r \in T : r.kit_id = kit_id
    THEN {IF r.kit_id = kit_id
          THEN [r EXCEPT !.status = status,
                         !.last_seen = last_seen,
                         !.name = Coalesce(ex_name, r.name),
                         !.api_url = CoalesceUrl(ex_url, r.api_url),
                         !.location = Coalesce(location, r.location)]
          ELSE r : r \in T}
    ELSE T \cup {KitRow(kit_id, ex_name, ex_url, location, status, last_seen, TRUE)}

\* ------------------------------------------------------------------------
\* class KitCollector
\* ------------------------------------------------------------------------
status_interval_cycles == STATUS_POLL_INTERVAL \div POLL_INTERVAL

\* KitCollector.__init__, and the run() task created for it.  pc is where
\* the task is suspended:
\*   "init_fetch"    _initialize awaits GET /status
\*   "polling"       poll_all_endpoints awaits the gather of /drones, /signals
\*   "status_fetch"  poll_status awaits GET /status
\*   "waiting"       wait_for(shutdown_event.wait(), timeout=delay)
\*   "idle"          asyncio.sleep(POLL_INTERVAL) of a disabled collector
\*   "err_sleep"     asyncio.sleep(POLL_INTERVAL) of the cycle's except clause
\*   "done"          run() returned;  "crashed"  run() raised
\* d_res, s_res: "pending", or what poll_drones/poll_signals gave the gather
\* ("true", "false", "exc").  health_ref: 0 while health is None, else the
\* number of the KitHealth object held.  last_write: the kit_id argument of
\* the collector's latest DatabaseWriter call.
KitCollector(kit_config) ==
    [config_id |-> kit_config.id,
     kit_id |-> None,
     name |-> kit_config.name,
     api_url |-> rstrip_slash(kit_config.api_url),
     location |-> kit_config.location,
     enabled |-> kit_config.enabled,
     health |-> KitHealth(None),
     health_ref |-> 0,
     initialized |-> FALSE,
     pc |-> "init_fetch",
     loc_kit_id |-> None,
     status_poll_counter |-> 0,
     success |-> FALSE,
     d_res |-> "pending",
     s_res |-> "pending",
     delay |-> 0,
     last_write |-> None,
     upgraded_to |-> None,
     probe_id |-> None]

_get_kit_id(c) == OrStr(c.kit_id, c.config_id)

\* a slip: writes keep using the id from the configuration
_get_kit_id_config(c) == c.config_id

\* data.get('kit_id') or data.get('uid')
StatusId(data) == OrStr(data.kit_id, data.uid)

\* What a fetch_json gives its caller: kind "none" (it returned None),
\* "json" (an object, or for /drones and /signals also a list; body holds
\* it), "empty" (the object {}), "bad" (JSON of another type).
Fetched(kind, body) == [kind |-> kind, body |-> body]

\* a slip: the loop condition does not look at the shutdown event
LoopTop_ignores_shutdown(c) ==
    IF ~c.enabled THEN [c EXCEPT !.pc = "idle"]
    ELSE [c EXCEPT !.pc = "polling",
                   !.loc_kit_id = _get_kit_id(c),
                   !.d_res = "pending",
                   !.s_res = "pending"]

\* the top of the while loop of run(), entered where the task next suspends
LoopTop(c) ==
    IF shutdown THEN [c EXCEPT !.pc = "done"]
    ELSE IF ~c.enabled THEN [c EXCEPT !.pc = "idle"]
    ELSE [c EXCEPT !.pc = "polling",
                   !.loc_kit_id = _get_kit_id(c),
                   !.d_res = "pending",
                   !.s_res = "pending"]

\* a slip: the health is updated once per telemetry fetch that succeeded
FinishCycle_per_fetch(c, success, out) ==
    LET h1 == IF success THEN mark_success(c.health, now)
              ELSE mark_failure(c.health, "Failed to fetch data from any endpoint")
        h == IF c.d_res = "true" /\ c.s_res = "true"
             THEN mark_success(h1, now) ELSE h1
        c2 == [c EXCEPT !.health = h,
                        !.success = success,
                        !.delay = IF success THEN POLL_INTERVAL
                                  ELSE get_next_poll_delay(h),
                        !.last_write = c.loc_kit_id,
                        !.pc = "waiting"]
    IN [c |-> c2,
        kits |-> update_kit_status(kits, c.loc_kit_id, h.status,
                                   IF success THEN h.last_seen ELSE now,
                                   OrStr(c.name, c.loc_kit_id), c.api_url,
                                   c.location, out)]

\* a slip: a metadata write that fails makes the cycle a failure
FinishCycle_fails_on_storage(c, success, out) ==
    LET good == success /\ out = "ok"
        h == IF good THEN mark_success(c.health, now)
             ELSE mark_failure(c.health, "Failed to fetch data from any endpoint")
        c2 == [c EXCEPT !.health = h,
                        !.success = good,
                        !.delay = IF good THEN POLL_INTERVAL
                                  ELSE get_next_poll_delay(h),
                        !.last_write = c.loc_kit_id,
                        !.pc = "waiting"]
    IN [c |-> c2,
        kits |-> update_kit_status(kits, c.loc_kit_id, h.status,
                                   IF good THEN h.last_seen ELSE now,
                                   OrStr(c.name, c.loc_kit_id), c.api_url,
                                   c.location, out)]

\* run() from "Update health status" to the wait for the next poll
FinishCycle(c, success, out) ==
    LET h == IF success THEN mark_success(c.health, now)
             ELSE mark_failure(c.health, "Failed to fetch data from any endpoint")
        c2 == [c EXCEPT !.health = h,
                        !.success = success,
                        !.delay = IF success THEN POLL_INTERVAL
                                  ELSE get_next_poll_delay(h),
                        !.last_write = c.loc_kit_id,
                        !.pc = "waiting"]
    IN [c |-> c2,
        kits |-> update_kit_status(kits, c.loc_kit_id, h.status,
                                   IF success THEN h.last_seen ELSE now,
                                   OrStr(c.name, c.loc_kit_id), c.api_url,
                                   c.location, out)]

\* poll_status after the fetch, for a JSON object: the identity, then
\* insert_health under _get_kit_id()
\* ghost bookkeeping of a status response: probe_id is the latest non-empty
\* identity a status response carried
NoteProbe(c, api_kit_id) ==
    IF api_kit_id \in {None, ""} THEN c
    ELSE [c EXCEPT !.probe_id = api_kit_id]

\* a slip of poll_status: an identity is taken from the API only once
poll_status_once(c, data) ==
    LET api_kit_id == StatusId(data) IN
    IF api_kit_id # None /\ api_kit_id # "" /\ api_kit_id # c.kit_id
       /\ c.upgraded_to = None
    THEN [NoteProbe(c, api_kit_id) EXCEPT
                   !.kit_id = api_kit_id,
                   !.health = [c.health EXCEPT !.kit_id = api_kit_id],
                   !.upgraded_to = api_kit_id]
    ELSE NoteProbe(c, api_kit_id)

\* a slip of poll_status: the upgrade makes a fresh KitHealth
poll_status_new_health(c, data) ==
    LET api_kit_id == StatusId(data) IN
    IF api_kit_id # None /\ api_kit_id # "" /\ api_kit_id # c.kit_id
    THEN [NoteProbe(c, api_kit_id) EXCEPT
                   !.kit_id = api_kit_id,
                   !.health = KitHealth(api_kit_id),
                   !.health_ref = @ + 1,
                   !.upgraded_to = IF c.upgraded_to = None THEN api_kit_id
                                   ELSE c.upgraded_to]
    ELSE NoteProbe(c, api_kit_id)

poll_status_identity(c, data) ==
    LET api_kit_id == StatusId(data) IN
    IF api_kit_id # None /\ api_kit_id # "" /\ api_kit_id # c.kit_id
    THEN [NoteProbe(c, api_kit_id) EXCEPT
                   !.kit_id = api_kit_id,
                   !.health = [c.health EXCEPT !.kit_id = api_kit_id],
                   !.upgraded_to = IF c.upgraded_to = None THEN api_kit_id
                                   ELSE c.upgraded_to]
    ELSE NoteProbe(c, api_kit_id)

\* ------------------------------------------------------------------------
\* SpecHealth: one KitHealth object under any sequence of its methods
\* ------------------------------------------------------------------------
Errors == {"Failed to fetch data from any endpoint", "boom"}
TickSteps == {30, 31}

\* ------------------------------------------------------------------------
\* KitCollector.fetch_json: one call, with its inline retries
\* ------------------------------------------------------------------------
\* What one attempt (client.get, raise_for_status, response.json) meets:
\*   "timeout"          httpx.TimeoutException
\*   "http_status"      httpx.HTTPStatusError of a non-2xx response
\*   "connect_refused"  httpx.ConnectError, a RequestError
\*   "connect_reset"    httpx.ReadError, a RequestError
\*   "bad_json"         response.json() raises on a malformed body
\*   "ok"               a JSON body
AttemptOutcomes ==
    {"timeout", "http_status", "connect_refused", "connect_reset",
     "bad_json", "ok"}

\* asyncio.sleep(1 * (retry + 1))
RetryDelay(retry) == 1 * (retry + 1)

\* pc: "idle" (not called), "request" (awaiting client.get), "sleep"
\* (awaiting the sleep before a retry), "returned".  log: the attempts made,
\* each with what it met; waits: the sleeps made; result: None or the body.
\* signal_at (bookkeeping, not read by fetch_json): the number of attempts
\* started when shutdown_event was set, NoNum while it is not set.
FetchCall(pc, endpoint, retry, log, waits, result) ==
    [pc |-> pc, endpoint |-> endpoint, retry |-> retry, log |-> log,
     waits |-> waits, result |-> result, signal_at |-> NoNum]

NoFetch == FetchCall("idle", None, 0, <<>>, <<>>, None)

\* no kits.yaml was loaded yet
NoLoads == [prev_file |-> <<>>, prev_kits |-> <<>>, file |-> <<>>, loaded |-> <<>>]

Attempt(outcome, body) == [outcome |-> outcome, body |-> body]

\* a slip: the retry test lets one attempt too many through
fetch_json_extra_retry(f, outcome, body) ==
    LET log == Append(f.log, Attempt(outcome, body)) IN
    CASE outcome = "ok" ->
           [f EXCEPT !.pc = "returned", !.log = log, !.result = body]
      [] outcome = "timeout" /\ f.retry <= MAX_RETRIES ->
           [f EXCEPT !.pc = "sleep", !.log = log,
                     !.waits = Append(@, RetryDelay(f.retry))]
      [] OTHER ->
           [f EXCEPT !.pc = "returned", !.log = log, !.result = None]

\* a slip: a request error is retried like a timeout
fetch_json_retries_errors(f, outcome, body) ==
    LET log == Append(f.log, Attempt(outcome, body)) IN
    CASE outcome = "ok" ->
           [f EXCEPT !.pc = "returned", !.log = log, !.result = body]
      [] outcome \in {"timeout", "connect_refused", "connect_reset"}
           /\ f.retry < MAX_RETRIES ->
           [f EXCEPT !.pc = "sleep", !.log = log,
                     !.waits = Append(@, RetryDelay(f.retry))]
      [] OTHER ->
           [f EXCEPT !.pc = "returned", !.log = log, !.result = None]

\* fetch_json from the end of one attempt to its next await or its return
fetch_json(f, outcome, body) ==
    LET log == Append(f.log, Attempt(outcome, body)) IN
    CASE outcome = "ok" ->
           [f EXCEPT !.pc = "returned", !.log = log, !.result = body]
      [] outcome = "timeout" /\ f.retry < MAX_RETRIES ->
           [f EXCEPT !.pc = "sleep", !.log = log,
                     !.waits = Append(@, RetryDelay(f.retry))]
      [] OTHER ->
           [f EXCEPT !.pc = "returned", !.log = log, !.result = None]

\* the arguments of one DatabaseWriter call: op names the method, recs is
\* the batch, outs what processing each record meets, meta the keyword
\* arguments of update_kit_status
NoMeta ==
    [status |-> None, last_seen |-> NoNum, name |-> None, api_url |-> NoUrl,
     location |-> None]

WriterCall(op, kit_id, recs, outs, meta) ==
    [op |-> op, kit_id |-> kit_id, recs |-> recs, outs |-> outs, meta |-> meta]

NoCall == WriterCall("none", None, <<>>, <<>>, NoMeta)

InitData ==
    /\ drones = {}
    /\ signals = {}
    /\ system_health = {}
    /\ wcalls = 0
    /\ wret = 0
    /\ wcall = NoCall

\* CollectorService.__init__: db and client are None, no task exists.
\* sup.start: "new", "blocked" (start() awaits shutdown_event.wait()),
\* "gathering" (it awaits the gather of self.tasks), "returned", "exited"
\* (its sys.exit(1) after the failed connection test) or "fatal" (it raised
\* and main() called sys.exit(1)).  sup.reload, sup.monitor: "none", "sleep" (the task is in
\* its asyncio.sleep), "locked" (reload_kits is inside _kit_lock), "done".
\* sup.shutdown_call: "none", "aclose" (shutdown() awaits client.aclose()),
\* "done".  sup.kit_lock: "free", or the task that holds _kit_lock.
InitLife ==
    /\ sup = [start |-> "new", reload |-> "none", monitor |-> "none",
              shutdown_call |-> "none", kit_lock |-> "free"]
    /\ pools = [client |-> "none", db |-> "none"]
    /\ expired = {}
    /\ fetch = NoFetch
    /\ yaml = NoLoads
    /\ net = "any"

\* the tasks start() has spawned beside the collectors, and its pools
Supervising ==
    [start |-> "blocked", reload |-> "sleep", monitor |-> "sleep",
     shutdown_call |-> "none", kit_lock |-> "free"]

OpenPools == [client |-> "open", db |-> "open"]

InitNoService ==
    /\ kits = {}
    /\ collectors = <<>>
    /\ svc_kits = <<>>
    /\ started = FALSE
    /\ shutdown = FALSE
    /\ nops = 0
    /\ db_kits = <<>>
    /\ InitLife

InitHealth ==
    /\ now = 0
    /\ kh = KitHealth("kit-1")
    /\ InitData
    /\ InitNoService

HMarkSuccess ==
    /\ kh.total_requests < MaxRequests
    /\ kh' = mark_success(kh, now)
    /\ UNCHANGED <<now, dataVars, writerVars, svcVars, lifeVars, fetch, yaml, net>>

HMarkFailure ==
    /\ kh.total_requests < MaxRequests
    /\ \E e \in Errors : kh' = mark_failure(kh, e)
    /\ UNCHANGED <<now, dataVars, writerVars, svcVars, lifeVars, fetch, yaml, net>>

HMarkStale ==
    /\ kh' = mark_stale(kh, now)
    /\ UNCHANGED <<now, dataVars, writerVars, svcVars, lifeVars, fetch, yaml, net>>

HTick ==
    /\ \E d \in TickSteps : now + d <= MaxClock /\ now' = now + d
    /\ UNCHANGED <<kh, dataVars, writerVars, svcVars, lifeVars, fetch, yaml, net>>

NextHealth == HMarkSuccess \/ HMarkFailure \/ HMarkStale \/ HTick

SpecHealth == InitHealth /\ [][NextHealth]_vars

\* ------------------------------------------------------------------------
\* C1: with n the current number of consecutive failures, backoff_delay is
\* min(initial * 2^n, max), so it lies in [initial, max]; with initial 5 and
\* max 300: n=0 gives 5, n=1 gives 10, n=3 gives 40, n=6 gives 300.
\* ------------------------------------------------------------------------
C1_Backoff ==
    LET n == kh.consecutive_failures IN
    /\ kh.backoff_delay = Min(INITIAL_BACKOFF * (2 ^ n), MAX_BACKOFF)
    /\ INITIAL_BACKOFF <= kh.backoff_delay
    /\ kh.backoff_delay <= MAX_BACKOFF
    /\ (n = 0 => kh.backoff_delay = 5)
    /\ (n = 1 => kh.backoff_delay = 10)
    /\ (n = 3 => kh.backoff_delay = 40)
    /\ (n = 6 => kh.backoff_delay = 300)

C1_Witness ==
    /\ kh.consecutive_failures = 6
    /\ kh.backoff_delay = 300
    /\ kh.successful_requests > 0

\* ------------------------------------------------------------------------
\* C2: from every reachable KitHealth state one mark_success sets status
\* online, consecutive_failures 0, backoff_delay initial, last_error None,
\* last_seen now, adds 1 to total_requests and successful_requests and
\* leaves failed_requests alone.
\* ------------------------------------------------------------------------
C2_SuccessResets ==
    [][HMarkSuccess =>
        /\ kh'.status = "online"
        /\ kh'.consecutive_failures = 0
        /\ kh'.backoff_delay = INITIAL_BACKOFF
        /\ kh'.last_error = None
        /\ kh'.last_seen = now
        /\ kh'.total_requests = kh.total_requests + 1
        /\ kh'.successful_requests = kh.successful_requests + 1
        /\ kh'.failed_requests = kh.failed_requests
        /\ kh'.kit_id = kh.kit_id]_vars

C2_Witness ==
    /\ kh.status = "online"
    /\ kh.failed_requests >= 3
    /\ kh.consecutive_failures = 0
    /\ kh.last_seen = now
    /\ now > 0

\* ------------------------------------------------------------------------
\* SpecWriter: the DatabaseWriter under any sequence of batch writes
\* ------------------------------------------------------------------------
KitIds == {"kit-1", "wd-9f21"}

\* payload elements: v sets every value column, so that two elements with
\* the same key differ in all of them
DroneOf(ts, id, v) ==
    [timestamp |-> ts, drone_id |-> id, id |-> None, icao |-> None,
     mac |-> "m1", lat |-> v, lon |-> v + 10, alt |-> 0, altitude |-> v + 20,
     speed |-> v + 30, heading |-> v + 40, rssi |-> v + 50, track_type |-> None]

DroneSamples ==
    {DroneOf(100, "d1", 1), DroneOf(100, "d1", 2), DroneOf(NoNum, None, 1)}

SignalOf(ts, f, v) ==
    [timestamp |-> ts, freq_mhz |-> f, freq |-> 2400, power_dbm |-> v,
     power |-> NoNum, bandwidth_mhz |-> v + 10, bandwidth |-> NoNum,
     lat |-> v + 20, lon |-> v + 30, alt |-> v + 40, type |-> None]

SignalSamples ==
    {SignalOf(100, 5800, 1), SignalOf(100, 5800, 2), SignalOf(NoNum, 0, 1)}

StatusOf(ts, v, kid, uid) ==
    [timestamp |-> ts, kit_id |-> kid, uid |-> uid,
     gps_lat |-> v + 20, gps_lon |-> v + 30, gps_alt |-> v + 40,
     cpu_percent |-> v, memory_percent |-> v + 1, disk_percent |-> v + 2,
     uptime_hours |-> v + 3, temp_cpu |-> v + 4, temp_gpu |-> v + 5]

StatusSamples ==
    {StatusOf(100, 1, None, None), StatusOf(100, 7, None, None),
     StatusOf(NoNum, 1, None, None)}

RECURSIVE SeqsUpTo(_, _)
SeqsUpTo(S, n) ==
    IF n = 0 THEN {<<>>}
    ELSE SeqsUpTo(S, n - 1) \cup
         {Append(q, x) : q \in {r \in SeqsUpTo(S, n - 1) : Len(r) = n - 1}, x \in S}

OutcomesFor(recs) == {o \in SeqsUpTo(Outcomes, MaxBatch) : Len(o) = Len(recs)}

InitWriter ==
    /\ now = 0
    /\ kh = KitHealth("kit-1")
    /\ InitData
    /\ InitNoService

WInsertDrones ==
    /\ wcalls < MaxWrites
    /\ \E k \in KitIds, recs \in SeqsUpTo(DroneSamples, MaxBatch) :
         \E outs \in OutcomesFor(recs) :
           LET res == insert_drones(drones, k, recs, outs, now) IN
           /\ drones' = res.table
           /\ wret' = res.ret
    /\ wcalls' = wcalls + 1
    /\ UNCHANGED wcall
    /\ UNCHANGED <<now, kh, signals, system_health, svcVars, lifeVars, fetch, yaml, net>>

WInsertSignals ==
    /\ wcalls < MaxWrites
    /\ \E k \in KitIds, recs \in SeqsUpTo(SignalSamples, MaxBatch) :
         \E outs \in OutcomesFor(recs) :
           LET res == insert_signals(signals, k, recs, outs, now) IN
           /\ signals' = res.table
           /\ wret' = res.ret
    /\ wcalls' = wcalls + 1
    /\ UNCHANGED wcall
    /\ UNCHANGED <<now, kh, drones, system_health, svcVars, lifeVars, fetch, yaml, net>>

WInsertHealth ==
    /\ wcalls < MaxWrites
    /\ \E k \in KitIds, st \in StatusSamples, out \in Outcomes :
         LET res == insert_health(system_health, k, st, out, now) IN
         /\ system_health' = res.table
         /\ wret' = IF res.ret THEN 1 ELSE 0
    /\ wcalls' = wcalls + 1
    /\ UNCHANGED wcall
    /\ UNCHANGED <<now, kh, drones, signals, svcVars, lifeVars, fetch, yaml, net>>

WTick ==
    /\ now = 0
    /\ now' = 1
    /\ UNCHANGED <<kh, dataVars, writerVars, svcVars, lifeVars, fetch, yaml, net>>

NextWriter == WInsertDrones \/ WInsertSignals \/ WInsertHealth \/ WTick

SpecWriter == InitWriter /\ [][NextWriter]_vars

\* ------------------------------------------------------------------------
\* C10: persistence is idempotent per natural key (time, kit_id, drone_id
\* for drones; time, kit_id, freq_mhz for signals; time, kit_id for health
\* snapshots): after two writes with the same key the table holds exactly
\* one row for that key, the columns the conflict clause sets hold the
\* second write's values, time and kit_id are those of the key, and
\* writing the same record twice gives the table of writing it once.
\* ------------------------------------------------------------------------
RowsWithKey(T, K(_), key) == {r \in T : K(r) = key}

C10_DronesIdempotent ==
    \A k \in KitIds, d1 \in DroneSamples, d2 \in DroneSamples :
      LET r1 == DroneRow(k, d1, now)
          r2 == DroneRow(k, d2, now)
          T1 == insert_drones(drones, k, <<d1>>, <<"ok">>, now).table
          T2 == insert_drones(T1, k, <<d2>>, <<"ok">>, now).table
          T12 == insert_drones(drones, k, <<d1, d2>>, <<"ok", "ok">>, now).table
      IN /\ T12 = T2
         /\ DroneKey(r1) = DroneKey(r2) =>
              /\ Cardinality(RowsWithKey(T2, DroneKey, DroneKey(r2))) = 1
              /\ \A r \in RowsWithKey(T2, DroneKey, DroneKey(r2)) :
                   /\ r.lat = r2.lat /\ r.lon = r2.lon /\ r.alt = r2.alt
                   /\ r.speed = r2.speed /\ r.heading = r2.heading
                   /\ r.time = r1.time /\ r.kit_id = k
                   /\ r.drone_id = r1.drone_id
              /\ Cardinality(T2) = Cardinality(T1)
         /\ d1 = d2 => T2 = T1

C10_SignalsIdempotent ==
    \A k \in KitIds, s1 \in SignalSamples, s2 \in SignalSamples :
      LET r1 == SignalRow(k, s1, now)
          r2 == SignalRow(k, s2, now)
          T1 == insert_signals(signals, k, <<s1>>, <<"ok">>, now).table
          T2 == insert_signals(T1, k, <<s2>>, <<"ok">>, now).table
      IN /\ SignalKey(r1) = SignalKey(r2) =>
              /\ Cardinality(RowsWithKey(T2, SignalKey, SignalKey(r2))) = 1
              /\ \A r \in RowsWithKey(T2, SignalKey, SignalKey(r2)) :
                   /\ r.power_dbm = r2.power_dbm
                   /\ r.time = r1.time /\ r.kit_id = k
                   /\ r.freq_mhz = r1.freq_mhz
              /\ Cardinality(T2) = Cardinality(T1)
         /\ s1 = s2 => T2 = T1

C10_HealthIdempotent ==
    \A k \in KitIds, s1 \in StatusSamples, s2 \in StatusSamples :
      LET r1 == HealthRow(k, s1, now)
          r2 == HealthRow(k, s2, now)
          T1 == insert_health(system_health, k, s1, "ok", now).table
          T2 == insert_health(T1, k, s2, "ok", now).table
      IN /\ HealthKey(r1) = HealthKey(r2) =>
              /\ Cardinality(RowsWithKey(T2, HealthKey, HealthKey(r2))) = 1
              /\ \A r \in RowsWithKey(T2, HealthKey, HealthKey(r2)) :
                   /\ r.cpu_percent = r2.cpu_percent
                   /\ r.memory_percent = r2.memory_percent
                   /\ r.disk_percent = r2.disk_percent
                   /\ r.time = r1.time /\ r.kit_id = k
              /\ Cardinality(T2) = Cardinality(T1)
         /\ s1 = s2 => T2 = T1

\* every table keeps one row per key
KeysUnique(T, K(_)) == \A r1 \in T, r2 \in T : K(r1) = K(r2) => r1 = r2

C10_Idempotent ==
    /\ C10_DronesIdempotent
    /\ C10_SignalsIdempotent
    /\ C10_HealthIdempotent
    /\ KeysUnique(drones, DroneKey)
    /\ KeysUnique(signals, SignalKey)
    /\ KeysUnique(system_health, HealthKey)

\* a row that was written twice with differing values: it carries the
\* second write's position and the first write's insert-only columns
C10_Witness ==
    /\ wcalls = 2
    /\ \E r \in drones : r.lat = 2 /\ r.rssi = 51 /\ r.time = 100
    /\ Cardinality(drones) = 1

\* ------------------------------------------------------------------------
\* The run() task of collector i, one action per stretch between two awaits
\* ------------------------------------------------------------------------
\* a slip: one KitHealth object shared by the collectors of the service
SetCollector_shared_health(i, c) ==
    collectors' = [j \in DOMAIN collectors |->
                     IF j = i THEN c
                     ELSE [collectors[j] EXCEPT !.health = c.health]]

SetCollector(i, c) == collectors' = [collectors EXCEPT ![i] = c]

\* a new cycle may start (the bound on cycles applies to enabled collectors)
MayLoop(c, maxc) ==
    LoopTop(c).pc = "polling" => c.health.total_requests < maxc

\* _initialize after its GET /status, then run() up to its first await
CInitDone(i, res, out) ==
    LET c == collectors[i]
        api_kit_id == StatusId(res.body)
        c1 == IF res.kind = "json"
              THEN [NoteProbe(c, api_kit_id) EXCEPT
                             !.kit_id = OrStr(api_kit_id, c.config_id),
                             !.upgraded_to =
                                 IF api_kit_id \notin {None, "", c.config_id}
                                 THEN api_kit_id ELSE None]
              ELSE [c EXCEPT !.kit_id = c.config_id]
        ins == insert_health(system_health, _get_kit_id(c1), res.body, out, now)
        c2 == [c1 EXCEPT !.health = KitHealth(_get_kit_id(c1)),
                         !.health_ref = 1,
                         !.initialized = TRUE,
                         !.last_write = IF res.kind = "json"
                                        THEN _get_kit_id(c1) ELSE c.last_write,
                         !.status_poll_counter = 0]
    IN
    /\ c.pc = "init_fetch"
    /\ IF res.kind = "bad"
       THEN /\ SetCollector(i, [c EXCEPT !.pc = "crashed"])
            /\ UNCHANGED system_health
       ELSE /\ SetCollector(i, LoopTop(c2))
            /\ system_health' = IF res.kind = "json" THEN ins.table
                                ELSE system_health
    /\ UNCHANGED <<now, kh, drones, signals, writerVars, kits, svc_kits,
                   started, shutdown, nops, db_kits, lifeVars, fetch, yaml, net>>

\* poll_drones after its fetch_json
CDronesDone(i, res, outs) ==
    LET c == collectors[i]
        kit_id == _get_kit_id(c)
        ins == insert_drones(drones, kit_id, res.body, outs, now)
    IN
    /\ c.pc = "polling"
    /\ c.d_res = "pending"
    /\ CASE res.kind = "none" ->
              /\ SetCollector(i, [c EXCEPT !.d_res = "false"])
              /\ UNCHANGED drones
         [] res.kind = "bad" ->
              /\ SetCollector(i, [c EXCEPT !.d_res = "exc"])
              /\ UNCHANGED drones
         [] OTHER ->
              /\ SetCollector(i, [c EXCEPT !.d_res = "true",
                                    !.last_write = IF res.body # <<>>
                                                   THEN kit_id ELSE @])
              /\ drones' = IF res.body # <<>> THEN ins.table ELSE drones
    /\ UNCHANGED <<now, kh, signals, system_health, writerVars, kits,
                   svc_kits, started, shutdown, nops, db_kits, lifeVars, fetch, yaml, net>>

\* poll_signals after its fetch_json
CSignalsDone(i, res, outs) ==
    LET c == collectors[i]
        kit_id == _get_kit_id(c)
        ins == insert_signals(signals, kit_id, res.body, outs, now)
    IN
    /\ c.pc = "polling"
    /\ c.s_res = "pending"
    /\ CASE res.kind = "none" ->
              /\ SetCollector(i, [c EXCEPT !.s_res = "false"])
              /\ UNCHANGED signals
         [] res.kind = "bad" ->
              /\ SetCollector(i, [c EXCEPT !.s_res = "exc"])
              /\ UNCHANGED signals
         [] OTHER ->
              /\ SetCollector(i, [c EXCEPT !.s_res = "true",
                                    !.last_write = IF res.body # <<>>
                                                   THEN kit_id ELSE @])
              /\ signals' = IF res.body # <<>> THEN ins.table ELSE signals
    /\ UNCHANGED <<now, kh, drones, system_health, writerVars, kits,
                   svc_kits, started, shutdown, nops, db_kits, lifeVars, fetch, yaml, net>>

\* poll_all_endpoints after the gather, then run(): either the status fetch
\* is due and starts, or the cycle is finished
poll_all_endpoints_result(c) == c.d_res = "true" \/ c.s_res = "true"

\* a slip: the cycle succeeds only when both fetches did
poll_all_endpoints_all(c) == c.d_res = "true" /\ c.s_res = "true"

CGatherDone(i, out) ==
    LET c == collectors[i]
        success == poll_all_endpoints_result(c)
        c1 == [c EXCEPT !.status_poll_counter = @ + 1, !.success = success]
        fin == FinishCycle(c1, success, out)
    IN
    /\ c.pc = "polling"
    /\ c.d_res # "pending"
    /\ c.s_res # "pending"
    /\ IF c1.status_poll_counter >= status_interval_cycles
       THEN /\ SetCollector(i, [c1 EXCEPT !.pc = "status_fetch"])
            /\ UNCHANGED kits
       ELSE /\ SetCollector(i, fin.c)
            /\ kits' = fin.kits
    /\ UNCHANGED <<now, kh, dataVars, writerVars, svc_kits, started,
                   shutdown, nops, db_kits, lifeVars, fetch, yaml, net>>

\* poll_status after its fetch_json, then run() to the end of the cycle
CStatusDone(i, res, hout, out) ==
    LET c == collectors[i]
        c1 == IF res.kind = "none" THEN c
              ELSE poll_status_identity(c, res.body)
        ins == insert_health(system_health, _get_kit_id(c1), res.body, hout, now)
        c2 == [c1 EXCEPT !.status_poll_counter = 0,
                         !.loc_kit_id = _get_kit_id(c1),
                         !.last_write = IF res.kind = "none" THEN @
                                        ELSE _get_kit_id(c1)]
        fin == FinishCycle(c2, c.success \/ res.kind # "none", out)
    IN
    /\ c.pc = "status_fetch"
    /\ IF res.kind = "bad"
       THEN /\ SetCollector(i, [c EXCEPT !.health = mark_failure(c.health, "boom"),
                                        !.pc = "err_sleep"])
            /\ UNCHANGED <<system_health, kits>>
       ELSE /\ SetCollector(i, fin.c)
            /\ kits' = fin.kits
            /\ system_health' = IF res.kind = "none" THEN system_health
                                ELSE ins.table
    /\ UNCHANGED <<now, kh, drones, signals, writerVars, svc_kits, started,
                   shutdown, nops, db_kits, lifeVars, fetch, yaml, net>>

\* wait_for(shutdown_event.wait(), timeout=delay) returns
CWaitDone(i, maxc) ==
    LET c == collectors[i] IN
    /\ c.pc = "waiting"
    /\ MayLoop(c, maxc)
    /\ SetCollector(i, IF shutdown THEN [c EXCEPT !.pc = "done"] ELSE LoopTop(c))
    /\ UNCHANGED <<now, kh, dataVars, writerVars, kits, svc_kits, started,
                   shutdown, nops, db_kits, lifeVars, fetch, yaml, net>>

\* the sleep of the except clause returns
CErrSleepDone(i, maxc) ==
    LET c == collectors[i] IN
    /\ c.pc = "err_sleep"
    /\ MayLoop(c, maxc)
    /\ SetCollector(i, LoopTop(c))
    /\ UNCHANGED <<now, kh, dataVars, writerVars, kits, svc_kits, started,
                   shutdown, nops, db_kits, lifeVars, fetch, yaml, net>>

\* the sleep of a disabled collector returns
CIdleDone(i, maxc) ==
    LET c == collectors[i] IN
    /\ c.pc = "idle"
    /\ MayLoop(c, maxc)
    /\ SetCollector(i, LoopTop(c))
    /\ UNCHANGED <<now, kh, dataVars, writerVars, kits, svc_kits, started,
                   shutdown, nops, db_kits, lifeVars, fetch, yaml, net>>

\* signal_handler / CollectorService.shutdown: shutdown_event.set()
SetShutdown ==
    /\ ~shutdown
    /\ shutdown' = TRUE
    /\ UNCHANGED <<now, kh, dataVars, writerVars, kits, collectors, svc_kits,
                   started, nops, db_kits, lifeVars, fetch, yaml, net>>

\* ------------------------------------------------------------------------
\* SpecPoller: one KitCollector task against an unreliable kit
\* ------------------------------------------------------------------------
NoBody == StatusOf(NoNum, NoNum, None, None)

StatusResponses ==
    {Fetched("none", NoBody), Fetched("bad", NoBody), Fetched("empty", NoBody),
     Fetched("json", StatusOf(100, 1, None, None)),
     Fetched("json", StatusOf(100, 1, "wd-9f21", None)),
     Fetched("json", StatusOf(100, 1, None, "wd-77aa"))}

DroneResponses ==
    {Fetched("none", <<>>), Fetched("bad", <<>>), Fetched("json", <<>>),
     Fetched("json", <<DroneOf(100, "d1", 1)>>)}

SignalResponses ==
    {Fetched("none", <<>>), Fetched("bad", <<>>), Fetched("json", <<>>),
     Fetched("json", <<SignalOf(100, 5800, 1)>>)}

DbOutcomes == {"ok", "exc"}

KitConfig(id, name, api_url, location, enabled) ==
    [id |-> id, name |-> name, api_url |-> api_url, location |-> location,
     enabled |-> enabled]

InitPoller ==
    /\ now = 0
    /\ kh = KitHealth("kit-1")
    /\ InitData
    /\ kits = {}
    /\ collectors = <<KitCollector(KitConfig("kit-cfg-7", None,
                                             Url(TRUE, "a", FALSE), None, TRUE))>>
    /\ svc_kits = <<1>>
    /\ started = TRUE
    /\ shutdown = FALSE
    /\ nops = 0
    /\ db_kits = <<>>
    /\ sup = Supervising
    /\ pools = OpenPools
    /\ expired = {}
    /\ fetch = NoFetch
    /\ yaml = NoLoads
    /\ net = "any"

PInitDone ==
    \E res \in StatusResponses, out \in DbOutcomes : CInitDone(1, res, out)

PDronesDone ==
    \E res \in DroneResponses : \E outs \in OutcomesFor(res.body) :
        CDronesDone(1, res, outs)

PSignalsDone ==
    \E res \in SignalResponses : \E outs \in OutcomesFor(res.body) :
        CSignalsDone(1, res, outs)

PGatherDone == \E out \in DbOutcomes : CGatherDone(1, out)

PStatusDone ==
    \E res \in StatusResponses, hout \in DbOutcomes, out \in DbOutcomes :
        CStatusDone(1, res, hout, out)

PWaitDone == CWaitDone(1, MaxCycles)

PErrSleepDone == CErrSleepDone(1, MaxCycles)

NextPoller ==
    \/ PInitDone \/ PDronesDone \/ PSignalsDone \/ PGatherDone \/ PStatusDone
    \/ PWaitDone \/ PErrSleepDone

SpecPoller == InitPoller /\ [][NextPoller]_vars

\* ------------------------------------------------------------------------
\* class CollectorService, and the kit administration of api.py
\* ------------------------------------------------------------------------
Range(q) == {q[i] : i \in DOMAIN q}

\* the rows of a SELECT, in the order the database returns them
RECURSIVE RowsInOrder(_)
RowsInOrder(S) ==
    IF S = {} THEN <<>>
    ELSE LET r == CHOOSE x \in S : TRUE IN <<r>> \o RowsInOrder(S \ {r})

\* DatabaseWriter.fetch_kits_from_db: the rows WHERE enabled, as kit
\* configurations; [] when the query raises
fetch_kits_from_db(T, ok) ==
    IF ~ok THEN <<>>
    ELSE LET rows == RowsInOrder({r \in T : r.enabled}) IN
         [i \in DOMAIN rows |->
             KitConfig(rows[i].kit_id, rows[i].name, rows[i].api_url,
                       rows[i].location, rows[i].enabled)]

\* what _load_yaml_kits returns for the kits.yaml of the deployment: two
\* kits without an id, which get kit-1 and kit-2 from their position
YamlKits ==
    <<KitConfig("kit-1", "Alpha", Url(TRUE, "a", TRUE), None, TRUE),
      KitConfig("kit-2", "Bravo", Url(TRUE, "b", FALSE), None, TRUE)>>

\* CollectorService._sync_yaml_to_database
RECURSIVE _sync_yaml_to_database(_, _, _)
_sync_yaml_to_database(T, yaml_kits, loaded) ==
    IF yaml_kits = <<>> THEN T
    ELSE LET db_urls == {loaded[j].api_url : j \in DOMAIN loaded}
             kit == Head(yaml_kits)
             api_url == rstrip_slash(kit.api_url)
             T1 == IF /\ api_url \notin db_urls
                      /\ [api_url EXCEPT !.slash = TRUE] \notin db_urls
                      /\ ~ \E r \in T : r.kit_id = kit.id
                   THEN T \cup {KitRow(kit.id, kit.name, api_url, kit.location,
                                       "unknown", NoNum, TRUE)}
                   ELSE T
         IN _sync_yaml_to_database(T1, Tail(yaml_kits), loaded)

\* CollectorService.load_config with USE_DB_KITS on: the table after the
\* YAML sync, and the configurations returned
load_config(T, ok) ==
    LET yaml_kits == YamlKits
        first == fetch_kits_from_db(T, ok)
        T1 == IF yaml_kits # <<>>
              THEN _sync_yaml_to_database(T, yaml_kits, first) ELSE T
        loaded == IF yaml_kits # <<>> THEN fetch_kits_from_db(T1, ok) ELSE first
    IN [kits |-> T1,
        configs |-> IF loaded # <<>> THEN loaded ELSE yaml_kits]

\* a slip of reload_kits: the collectors that stay are started afresh
reload_kits_restart_all(cs, sk, loaded) ==
    LET current_urls == {cs[i].api_url : i \in Range(sk)}
        new_urls == {loaded[j].api_url : j \in DOMAIN loaded}
        to_add == SelectSeq(loaded, LAMBDA k : k.api_url \notin current_urls)
        to_remove == {i \in Range(sk) : cs[i].api_url \notin new_urls}
        spawn == SelectSeq(to_add, LAMBDA k : k.enabled)
    IN
    [collectors |-> [i \in DOMAIN cs |->
                        IF i \in to_remove
                        THEN [cs[i] EXCEPT !.enabled = FALSE]
                        ELSE IF i \in Range(sk)
                        THEN KitCollector(KitConfig(cs[i].config_id, cs[i].name,
                                                    cs[i].api_url, cs[i].location,
                                                    TRUE))
                        ELSE cs[i]]
                    \o [j \in DOMAIN spawn |-> KitCollector(spawn[j])],
     svc_kits |-> SelectSeq(sk, LAMBDA i : i \notin to_remove)
                    \o [j \in DOMAIN spawn |-> Len(cs) + j]]

\* a slip of reload_kits: a removed collector's task is cancelled
reload_kits_cancel(cs, sk, loaded) ==
    LET current_urls == {cs[i].api_url : i \in Range(sk)}
        new_urls == {loaded[j].api_url : j \in DOMAIN loaded}
        to_add == SelectSeq(loaded, LAMBDA k : k.api_url \notin current_urls)
        to_remove == {i \in Range(sk) : cs[i].api_url \notin new_urls}
        spawn == SelectSeq(to_add, LAMBDA k : k.enabled)
    IN
    [collectors |-> [i \in DOMAIN cs |->
                        IF i \in to_remove
                        THEN [cs[i] EXCEPT !.enabled = FALSE, !.pc = "done"]
                        ELSE cs[i]]
                    \o [j \in DOMAIN spawn |-> KitCollector(spawn[j])],
     svc_kits |-> SelectSeq(sk, LAMBDA i : i \notin to_remove)
                    \o [j \in DOMAIN spawn |-> Len(cs) + j]]

\* the body of reload_kits under _kit_lock, after the fetch: cs are the
\* collectors created so far, sk is self.kits, loaded is db_kits
reload_kits(cs, sk, loaded) ==
    LET current_urls == {cs[i].api_url : i \in Range(sk)}
        new_urls == {loaded[j].api_url : j \in DOMAIN loaded}
        to_add == SelectSeq(loaded, LAMBDA k : k.api_url \notin current_urls)
        to_remove == {i \in Range(sk) : cs[i].api_url \notin new_urls}
        spawn == SelectSeq(to_add, LAMBDA k : k.enabled)
    IN
    [collectors |-> [i \in DOMAIN cs |->
                        IF i \in to_remove
                        THEN [cs[i] EXCEPT !.enabled = FALSE]
                        ELSE cs[i]]
                    \o [j \in DOMAIN spawn |-> KitCollector(spawn[j])],
     svc_kits |-> SelectSeq(sk, LAMBDA i : i \notin to_remove)
                    \o [j \in DOMAIN spawn |-> Len(cs) + j]]

\* api.py _generate_kit_id
_generate_kit_id(api_url) == "kit-" \o api_url.host

\* api.py create_kit: test_kit_id and test_success are what the connection
\* test found; an existing kit_id or api_url gives 409
create_kit(T, api_url, name, enabled, test_kit_id, test_success) ==
    LET url == normalize_url(api_url)
        kit_id == OrStr(test_kit_id, _generate_kit_id(url))
    IN
    IF \E r \in T : r.kit_id = kit_id \/ r.api_url = url THEN T
    ELSE T \cup {KitRow(kit_id, OrStr(name, kit_id), url, None,
                        IF test_success THEN "online" ELSE "offline",
                        NoNum, enabled)}

\* api.py update_kit: api_url is NoUrl and enabled is None when the request
\* leaves the field out, else enabled is "true" or "false"
update_kit(T, kit_id, api_url, enabled) ==
    {IF r.kit_id = kit_id
     THEN [r EXCEPT !.api_url = IF api_url # NoUrl THEN normalize_url(api_url)
                                ELSE @,
                    !.enabled = IF enabled # None THEN enabled = "true" ELSE @]
     ELSE r : r \in T}

\* api.py delete_kit without delete_data
delete_kit(T, kit_id) == {r \in T : r.kit_id # kit_id}


\* CollectorService.start, the storage answering its connection test, up
\* to its wait for the shutdown event
Start(ok) ==
    LET lc == load_config(kits, ok)
        enabled_kits == SelectSeq(lc.configs, LAMBDA k : k.enabled)
    IN
    /\ ~started
    /\ started' = TRUE
    /\ kits' = lc.kits
    /\ db_kits' = lc.configs
    /\ collectors' = [i \in DOMAIN enabled_kits |-> KitCollector(enabled_kits[i])]
    /\ svc_kits' = [i \in DOMAIN enabled_kits |-> i]
    /\ sup' = Supervising
    /\ pools' = OpenPools
    /\ expired' = {}
    /\ UNCHANGED <<fetch, yaml, net>>
    /\ UNCHANGED <<now, kh, dataVars, writerVars, shutdown, nops>>

\* one pass of kit_reload_loop: reload_kits
Reload(ok) ==
    LET loaded == fetch_kits_from_db(kits, ok)
        r == reload_kits(collectors, svc_kits, loaded)
    IN
    /\ started
    /\ ~shutdown
    /\ Len(r.collectors) <= MaxCollectors
    /\ db_kits' = loaded
    /\ collectors' = r.collectors
    /\ svc_kits' = r.svc_kits
    /\ UNCHANGED <<now, kh, dataVars, writerVars, kits, started, shutdown, nops, lifeVars, fetch, yaml, net>>

\* an administration call that changes the kits table
AdminCall(T) ==
    /\ started
    /\ nops < MaxOps
    /\ T # kits
    /\ kits' = T
    /\ nops' = nops + 1
    /\ UNCHANGED <<now, kh, dataVars, writerVars, collectors, svc_kits,
                   started, shutdown, db_kits, lifeVars, fetch, yaml, net>>

\* ------------------------------------------------------------------------
\* SpecService: the service with its collectors, its reload loop and an
\* operator who administers the kits table through api.py
\* ------------------------------------------------------------------------
\* requests of the operator
CreateUrls == {Url(FALSE, "c", TRUE)}
UpdateUrls == {NoUrl, Url(FALSE, "c", FALSE)}
UpdateEnabled == {None, "true", "false"}

\* the kit at host a reports an identity, the others do not answer /status
SvcStatusResponses(c) ==
    IF c.api_url.host = "a"
    THEN {Fetched("json", StatusOf(100, 1, "wd-9f21", None))}
    ELSE {Fetched("none", NoBody)}

SvcDroneResponses == {Fetched("json", <<>>)}

InitService ==
    /\ now = 0
    /\ kh = KitHealth("kit-1")
    /\ InitData
    /\ kits = {}
    /\ collectors = <<>>
    /\ svc_kits = <<>>
    /\ started = FALSE
    /\ shutdown = FALSE
    /\ nops = 0
    /\ db_kits = <<>>
    /\ InitLife

SStart == Start(TRUE)

SReload == \E ok \in BOOLEAN : Reload(ok)

ApiCreateKit ==
    \E u \in CreateUrls :
        AdminCall(create_kit(kits, u, None, TRUE, None, FALSE))

ApiUpdateKit ==
    \E r \in kits, u \in UpdateUrls, e \in UpdateEnabled :
        AdminCall(update_kit(kits, r.kit_id, u, e))

ApiDeleteKit == \E r \in kits : AdminCall(delete_kit(kits, r.kit_id))

SInitDone ==
    \E i \in DOMAIN collectors :
        \E res \in SvcStatusResponses(collectors[i]) : CInitDone(i, res, "ok")

SDronesDone ==
    \E i \in DOMAIN collectors :
        \E res \in SvcDroneResponses : CDronesDone(i, res, <<>>)

SSignalsDone ==
    \E i \in DOMAIN collectors : CSignalsDone(i, Fetched("none", <<>>), <<>>)

SGatherDone == \E i \in DOMAIN collectors : CGatherDone(i, "ok")

SWaitDone == \E i \in DOMAIN collectors : CWaitDone(i, MaxSvcCycles)

SIdleDone == \E i \in DOMAIN collectors : CIdleDone(i, MaxSvcCycles)

NextService ==
    \/ SStart \/ SReload
    \/ ApiCreateKit \/ ApiUpdateKit \/ ApiDeleteKit
    \/ SInitDone \/ SDronesDone \/ SSignalsDone \/ SGatherDone
    \/ SWaitDone \/ SIdleDone

SpecService == InitService /\ [][NextService]_vars

\* ------------------------------------------------------------------------
\* SpecRestart: the service started on a kits table that earlier runs left
\* behind, without an operator
\* ------------------------------------------------------------------------
\* a row whose api_url still has the trailing slash that
\* _sync_yaml_to_database looks for
LegacyStore ==
    {KitRow("kit-2", "Bravo", Url(TRUE, "b", TRUE), None, "unknown", NoNum, TRUE)}

\* the table of a run in which the kit at a reported its identity and then
\* finished a cycle: the row of the YAML sync and the row update_kit_status
\* made for the new kit_id (SpecService reaches this table)
PrevRunStore ==
    {KitRow("kit-1", "Alpha", Url(TRUE, "a", FALSE), None, "unknown", NoNum, TRUE),
     KitRow("wd-9f21", "Alpha", Url(TRUE, "a", FALSE), None, "online", 0, TRUE),
     KitRow("kit-2", "Bravo", Url(TRUE, "b", FALSE), None, "unknown", NoNum, TRUE)}

PrevRunStoreReached == started /\ kits = PrevRunStore

\* the table after an operator disabled both kits of kits.yaml through
\* api.py update_kit (SpecService reaches this table)
DisabledStore ==
    {KitRow("kit-1", "Alpha", Url(TRUE, "a", FALSE), None, "unknown", NoNum, FALSE),
     KitRow("kit-2", "Bravo", Url(TRUE, "b", FALSE), None, "unknown", NoNum, FALSE)}

DisabledStoreReached == started /\ kits = DisabledStore

InitRestart ==
    /\ now = 0
    /\ kh = KitHealth("kit-1")
    /\ InitData
    /\ kits \in {LegacyStore, PrevRunStore, DisabledStore}
    /\ collectors = <<>>
    /\ svc_kits = <<>>
    /\ started = FALSE
    /\ shutdown = FALSE
    /\ nops = 0
    /\ db_kits = <<>>
    /\ InitLife

NextRestart ==
    \/ SStart \/ SReload
    \/ SInitDone \/ SDronesDone \/ SSignalsDone \/ SGatherDone
    \/ SWaitDone \/ SIdleDone

SpecRestart == InitRestart /\ [][NextRestart]_vars

\* ------------------------------------------------------------------------
\* C3: a poll cycle in which exactly one of the /drones and /signals fetches
\* succeeds is recorded as a success (status online, consecutive_failures
\* and failed_requests not increased), and the failed fetch writes nothing.
\* ------------------------------------------------------------------------
PartialSuccess(c) ==
    \/ c.d_res = "true" /\ c.s_res \in {"false", "exc"}
    \/ c.s_res = "true" /\ c.d_res \in {"false", "exc"}

\* the step that ends a cycle of collector i
CycleEnds(i) ==
    /\ collectors[i].pc \in {"polling", "status_fetch"}
    /\ collectors'[i].pc \in {"waiting", "err_sleep"}

RecordedSuccess(i) ==
    /\ collectors'[i].health.status = "online"
    /\ collectors'[i].health.consecutive_failures = 0
    /\ collectors'[i].health.failed_requests = collectors[i].health.failed_requests
    /\ collectors'[i].health.successful_requests =
           collectors[i].health.successful_requests + 1

FailedFetchWritesNothing(i) ==
    /\ (collectors[i].d_res = "pending" /\ collectors'[i].d_res \in {"false", "exc"})
          => drones' = drones
    /\ (collectors[i].s_res = "pending" /\ collectors'[i].s_res \in {"false", "exc"})
          => signals' = signals

C3_PartialSuccess ==
    [][/\ (CycleEnds(1) /\ PartialSuccess(collectors[1])) => RecordedSuccess(1)
       /\ FailedFetchWritesNothing(1)]_vars

\* the same, for the cycles that reach run()'s "Update health status"
C3_PartialSuccessNoRaise ==
    [][/\ (CycleEnds(1) /\ PartialSuccess(collectors[1])
            /\ collectors'[1].pc = "waiting") => RecordedSuccess(1)
       /\ FailedFetchWritesNothing(1)]_vars

\* a partial cycle that the except clause of run() has recorded as a failure
C3_Witness ==
    /\ collectors[1].pc = "err_sleep"
    /\ collectors[1].d_res = "false"
    /\ collectors[1].s_res = "true"
    /\ collectors[1].health.status = "offline"
    /\ collectors[1].health.consecutive_failures = 1
    /\ signals # {}

Counters(h) ==
    <<h.total_requests, h.successful_requests, h.failed_requests,
      h.consecutive_failures, h.backoff_delay>>

CurrentUrls == {collectors[i].api_url : i \in Range(svc_kits)}

LoadedUrls(loaded) == {loaded[j].api_url : j \in DOMAIN loaded}

\* this step is a pass of reload_kits that loaded or changed something
ReloadStep == started /\ (db_kits' # db_kits \/ svc_kits' # svc_kits)

\* ------------------------------------------------------------------------
\* C6: when the kits loaded by a reload pass are the running ones and one
\* more, the pass starts exactly one collector task, for the new kit and at
\* once, and leaves every running collector as it was (not restarted, not
\* replaced, enabled flag and health untouched).
\* ------------------------------------------------------------------------
AddPremise ==
    /\ Cardinality(CurrentUrls) >= 2
    /\ CurrentUrls \subseteq LoadedUrls(db_kits')
    /\ Cardinality({j \in DOMAIN db_kits' :
                       db_kits'[j].api_url \notin CurrentUrls}) = 1

AddEffect ==
    LET n == Len(collectors) + 1
        j == CHOOSE x \in DOMAIN db_kits' : db_kits'[x].api_url \notin CurrentUrls
    IN
    /\ Len(collectors') = n
    /\ collectors'[n].api_url = rstrip_slash(db_kits'[j].api_url)
    /\ collectors'[n].config_id = db_kits'[j].id
    /\ collectors'[n].enabled
    /\ collectors'[n].pc = "init_fetch"
    /\ svc_kits' = Append(svc_kits, n)
    /\ \A i \in DOMAIN collectors : collectors'[i] = collectors[i]

C6_ReconcileAdd == [][(ReloadStep /\ AddPremise) => AddEffect]_vars

C6_Witness ==
    /\ Len(db_kits) = 3
    /\ svc_kits = <<1, 2, 3>>
    /\ collectors[3].api_url = Url(TRUE, "c", FALSE)
    /\ collectors[3].pc = "init_fetch"
    /\ collectors[1].enabled /\ collectors[1].health.total_requests = 1
    /\ collectors[2].enabled /\ collectors[2].pc = "polling"

\* ------------------------------------------------------------------------
\* C7: when the kits loaded by a reload pass are the running ones less one,
\* the pass sets the enabled flag of that kit's collector to false, takes it
\* out of self.kits and does not cancel its task; the other collectors stay
\* as they were.  A collector whose flag is false never starts another poll:
\* at its next loop iteration it goes idle, and idle it makes no request and
\* no write.
\* ------------------------------------------------------------------------
RemovePremise ==
    /\ Cardinality(LoadedUrls(db_kits')) >= 2
    /\ LoadedUrls(db_kits') \subseteq CurrentUrls
    /\ Cardinality({i \in Range(svc_kits) :
                       collectors[i].api_url \notin LoadedUrls(db_kits')}) = 1

RemoveEffect ==
    LET gone == {i \in Range(svc_kits) :
                    collectors[i].api_url \notin LoadedUrls(db_kits')}
    IN
    /\ Len(collectors') = Len(collectors)
    /\ svc_kits' = SelectSeq(svc_kits, LAMBDA i : i \notin gone)
    /\ \A i \in DOMAIN collectors :
          collectors'[i] = IF i \in gone
                           THEN [collectors[i] EXCEPT !.enabled = FALSE]
                           ELSE collectors[i]

DisabledOnlyIdles ==
    \A i \in DOMAIN collectors :
        ~ collectors[i].enabled =>
            /\ ~ collectors'[i].enabled
            /\ collectors'[i].pc = "polling" => collectors[i].pc = "polling"
            /\ (collectors[i].pc \in {"init_fetch", "waiting", "err_sleep", "idle"}
                  /\ collectors'[i].pc # collectors[i].pc)
                  => collectors'[i].pc \in {"idle", "done"}
            /\ collectors[i].pc = "idle"
                  => /\ collectors'[i].last_write = collectors[i].last_write
                     /\ collectors'[i].health = collectors[i].health
                     /\ (collectors'[i] # collectors[i]
                           => UNCHANGED <<dataVars, kits, lifeVars, fetch, yaml, net>>)

C7_ReconcileRemove ==
    /\ [][(ReloadStep /\ RemovePremise) => RemoveEffect]_vars
    /\ [][DisabledOnlyIdles]_vars

C7_Witness ==
    /\ Len(collectors) = 3
    /\ svc_kits = <<1, 2>>
    /\ Len(db_kits) = 2
    /\ ~ collectors[3].enabled
    /\ collectors[3].pc = "idle"
    /\ collectors[3].api_url = Url(TRUE, "c", FALSE)
    /\ collectors[1].enabled /\ collectors[1].pc = "polling"
    /\ collectors[2].enabled /\ collectors[2].health.total_requests = 1

\* ------------------------------------------------------------------------
\* C8: at every moment at most one enabled collector task exists per
\* api_url.
\* ------------------------------------------------------------------------
Running(i) ==
    collectors[i].enabled /\ collectors[i].pc \notin {"done", "crashed"}

C8_OnePollerPerEndpoint ==
    \A i, j \in DOMAIN collectors :
        (i # j /\ Running(i) /\ Running(j))
            => collectors[i].api_url # collectors[j].api_url

C8_Witness ==
    \E i, j \in DOMAIN collectors :
        /\ i # j /\ Running(i) /\ Running(j)
        /\ collectors[i].api_url = collectors[j].api_url
        /\ collectors[i].pc = "polling" /\ collectors[j].pc = "polling"

StaleCondition(h, t) == h.last_seen # NoNum /\ t - h.last_seen > STALE_THRESHOLD

C14_StaleIffOld ==
    LET reported == mark_stale(kh, now).status IN
    /\ (reported = "stale") <=> StaleCondition(kh, now)
    /\ (kh.last_seen = NoNum => reported # "stale")
    /\ (~StaleCondition(kh, now) => reported = kh.status)

\* a kit last recorded offline (last_error is set), seen more than the
\* threshold ago, reported stale
C14_Witness ==
    /\ kh.status = "stale"
    /\ kh.last_error # None
    /\ kh.last_seen # NoNum
    /\ now - kh.last_seen > STALE_THRESHOLD

\* ------------------------------------------------------------------------
\* C15: the staleness check changes no field of the stored KitHealth: the
\* stored status is written only by mark_success / mark_failure and is
\* never "stale".
\* ------------------------------------------------------------------------
C15_StaleCheckReadOnly ==
    [][HMarkStale => kh' = kh]_vars

\* the stored status of a kit last recorded online has become stale
C15_Witness ==
    /\ kh.status = "stale"
    /\ kh.last_error = None
    /\ kh.successful_requests > 0

\* ------------------------------------------------------------------------
\* SpecCalls: one DatabaseWriter call, on an empty table or on one that
\* already holds a row; the call and its outcomes are drawn at the start
\* ------------------------------------------------------------------------
StoredDrones == {{}, {DroneRow("kit-1", DroneOf(100, "d1", 1), 0)}}
StoredSignals == {{}, {SignalRow("kit-1", SignalOf(100, 5800, 1), 0)}}
StoredKits ==
    {{}, {KitRow("kit-1", "Alpha", Url(TRUE, "a", FALSE), "lab", "offline", 0, TRUE)}}

DroneCalls ==
    {WriterCall("insert_drones", k, recs, outs, NoMeta) :
       k \in KitIds,
       recs \in SeqsUpTo(DroneSamples, MaxBatch),
       outs \in SeqsUpTo(Outcomes, MaxBatch)}

SignalCalls ==
    {WriterCall("insert_signals", k, recs, outs, NoMeta) :
       k \in KitIds,
       recs \in SeqsUpTo(SignalSamples, MaxBatch),
       outs \in SeqsUpTo(Outcomes, MaxBatch)}

KitMetas ==
    [status : {"online", "offline"}, last_seen : {1},
     name : {None, "Bravo"}, api_url : {NoUrl, Url(TRUE, "b", FALSE)},
     location : {None, "roof"}]

KitCalls ==
    {WriterCall("update_kit_status", k, <<>>, <<out>>, m) :
       k \in KitIds, out \in {"ok", "exc"}, m \in KitMetas}

InitCalls ==
    /\ now = 1
    /\ kh = KitHealth("kit-1")
    /\ system_health = {}
    /\ wcalls = 0
    /\ wret = 0
    /\ collectors = <<>>
    /\ svc_kits = <<>>
    /\ started = FALSE
    /\ shutdown = FALSE
    /\ nops = 0
    /\ db_kits = <<>>
    /\ InitLife
    /\ \/ /\ wcall \in {c \in DroneCalls : Len(c.outs) = Len(c.recs)}
          /\ drones \in StoredDrones
          /\ signals = {}
          /\ kits = {}
       \/ /\ wcall \in {c \in SignalCalls : Len(c.outs) = Len(c.recs)}
          /\ drones = {}
          /\ signals \in StoredSignals
          /\ kits = {}
       \/ /\ wcall \in KitCalls
          /\ drones = {}
          /\ signals = {}
          /\ kits \in StoredKits

KInsertDrones ==
    /\ wcalls = 0
    /\ wcall.op = "insert_drones"
    /\ LET res == insert_drones(drones, wcall.kit_id, wcall.recs, wcall.outs, now) IN
       /\ drones' = res.table
       /\ wret' = res.ret
    /\ wcalls' = 1
    /\ UNCHANGED <<now, kh, signals, system_health, wcall, svcVars, lifeVars, fetch, yaml, net>>

KInsertSignals ==
    /\ wcalls = 0
    /\ wcall.op = "insert_signals"
    /\ LET res == insert_signals(signals, wcall.kit_id, wcall.recs, wcall.outs, now) IN
       /\ signals' = res.table
       /\ wret' = res.ret
    /\ wcalls' = 1
    /\ UNCHANGED <<now, kh, drones, system_health, wcall, svcVars, lifeVars, fetch, yaml, net>>

KUpdateKitStatus ==
    /\ wcalls = 0
    /\ wcall.op = "update_kit_status"
    /\ kits' = update_kit_status(kits, wcall.kit_id, wcall.meta.status,
                                 wcall.meta.last_seen, wcall.meta.name,
                                 wcall.meta.api_url, wcall.meta.location,
                                 wcall.outs[1])
    /\ wcalls' = 1
    /\ UNCHANGED <<now, kh, dataVars, wret, wcall, collectors, svc_kits,
                   started, shutdown, nops, db_kits, lifeVars, fetch, yaml, net>>

NextCalls == KInsertDrones \/ KInsertSignals \/ KUpdateKitStatus

SpecCalls == InitCalls /\ [][NextCalls]_vars

\* ------------------------------------------------------------------------
\* C11: in a batch write each record is written independently: whatever
\* the other records of the batch meet (a malformed element, a storage
\* error), every record that is itself valid has a row under its key when
\* the call returns, whether it stands before or after the failing one.
\* ------------------------------------------------------------------------
ValidRecords(call) == {i \in 1..Len(call.recs) : call.outs[i] = "ok"}

C11_RecordsIndependent ==
    [][/\ KInsertDrones =>
            \A i \in ValidRecords(wcall) :
              \E r \in drones' :
                DroneKey(r) = DroneKey(DroneRow(wcall.kit_id, wcall.recs[i], now))
       /\ KInsertSignals =>
            \A i \in ValidRecords(wcall) :
              \E r \in signals' :
                SignalKey(r) = SignalKey(SignalRow(wcall.kit_id, wcall.recs[i], now))]_vars

\* a batch whose first element raises while its parameters are built and
\* whose second element is valid: the call has returned, nothing is stored
C11_Witness ==
    /\ wcalls = 1
    /\ wcall.op = "insert_drones"
    /\ wcall.outs = <<"exc", "ok">>
    /\ drones = {}

\* ------------------------------------------------------------------------
\* C12: the integer a batch write returns is the number of records of the
\* batch the call committed: it is at least the number of rows the call
\* added or changed and at most the batch length; for a batch of distinct
\* keys that are new to the table it is exactly the number of rows added;
\* an empty batch returns 0 and leaves the table alone.
\* ------------------------------------------------------------------------
DistinctNewKeys(keys, stored) ==
    /\ \A i \in DOMAIN keys : \A j \in DOMAIN keys : i # j => keys[i] # keys[j]
    /\ \A i \in DOMAIN keys : keys[i] \notin stored

CountsPersisted(ret, recs, keys, T, T2, stored) ==
    /\ ret >= Cardinality(T2 \ T)
    /\ ret <= Len(recs)
    /\ DistinctNewKeys(keys, stored) => ret = Cardinality(T2) - Cardinality(T)
    /\ recs = <<>> => ret = 0 /\ T2 = T

C12_ReturnsPersistedCount ==
    [][/\ KInsertDrones =>
            CountsPersisted(wret', wcall.recs,
                [i \in 1..Len(wcall.recs) |->
                   DroneKey(DroneRow(wcall.kit_id, wcall.recs[i], now))],
                drones, drones', {DroneKey(r) : r \in drones})
       /\ KInsertSignals =>
            CountsPersisted(wret', wcall.recs,
                [i \in 1..Len(wcall.recs) |->
                   SignalKey(SignalRow(wcall.kit_id, wcall.recs[i], now))],
                signals, signals', {SignalKey(r) : r \in signals})]_vars

\* the first record was committed, the second raised: a row is stored and
\* the call returned 0
C12_Witness ==
    /\ wcalls = 1
    /\ wcall.op = "insert_drones"
    /\ wcall.outs = <<"ok", "exc">>
    /\ wret = 0
    /\ \E r \in drones : r.kit_id = "wd-9f21"

\* ------------------------------------------------------------------------
\* C13: update_kit_status on a kit_id already stored: status and last_seen
\* take the incoming values, and each of name, api_url and location keeps
\* its stored value when the call supplies none.
\* ------------------------------------------------------------------------
C13_KeepsKnownMetadata ==
    [][(KUpdateKitStatus /\ wcall.outs[1] = "ok") =>
         \A r \in kits : r.kit_id = wcall.kit_id =>
           \E r2 \in kits' :
             /\ r2.kit_id = r.kit_id
             /\ r2.status = wcall.meta.status
             /\ r2.last_seen = wcall.meta.last_seen
             /\ (wcall.meta.name = None => r2.name = r.name)
             /\ (wcall.meta.api_url = NoUrl => r2.api_url = r.api_url)
             /\ (wcall.meta.location = None => r2.location = r.location)]_vars

\* a call without name, api_url and location on the stored kit: its
\* location is kept, its name and api_url are not
C13_Witness ==
    /\ wcalls = 1
    /\ wcall.op = "update_kit_status"
    /\ wcall.meta.name = None
    /\ wcall.meta.api_url = NoUrl
    /\ wcall.meta.location = None
    /\ \E r \in kits :
         /\ r.kit_id = wcall.kit_id
         /\ r.location = "lab"
         /\ r.name = r.kit_id
         /\ r.api_url = UnknownUrl

\* ------------------------------------------------------------------------
\* C18: the task of a collector ends only once the shutdown signal has
\* fired: run() returns only with shutdown_event set, and no error, after
\* any number of failed cycles, makes run() raise.
\* ------------------------------------------------------------------------
C18_EndsOnlyOnShutdown ==
    \A i \in DOMAIN collectors :
      /\ collectors[i].pc # "crashed"
      /\ (collectors[i].pc = "done" => shutdown)

\* the same for a collector that has entered its while loop: the except
\* clause of the cycle keeps every error of a cycle inside the task
C18_LoopNeverCrashes ==
    [][\A i \in DOMAIN collectors :
         (i \in DOMAIN collectors' /\ collectors[i].initialized) =>
           /\ collectors'[i].pc # "crashed"
           /\ (collectors'[i].pc = "done" => shutdown')]_vars

\* run() has raised out of _initialize, before any cycle, with no shutdown
C18_Witness ==
    /\ ~shutdown
    /\ \E i \in DOMAIN collectors :
         /\ collectors[i].pc = "crashed"
         /\ ~collectors[i].initialized
         /\ collectors[i].health_ref = 0

\* ------------------------------------------------------------------------
\* SpecLifecycle: the service from start() to its end: the collectors of
\* its kits, the reload loop, the health monitor, an operator who adds a
\* kit, the shutdown signal and a call of shutdown().  Every sleep and wait
\* has a timer that runs out at some moment.
\* ------------------------------------------------------------------------
Poller(i) == <<"poller", i>>
ReloadTask == <<"reload", 0>>
MonitorTask == <<"monitor", 0>>

\* the event loop of asyncio.run(service.start()) is running
Alive == sup.start \in {"blocked", "gathering"}

\* a sleep or wait of task t can return: its timer has run out, or it is a
\* wait_for on shutdown_event and the event is set
WaitOver(t, races) == t \in expired \/ (races /\ shutdown)

Sleeping(t) ==
    \/ t = ReloadTask /\ sup.reload = "sleep"
    \/ t = MonitorTask /\ sup.monitor = "sleep"
    \/ \E i \in DOMAIN collectors :
         t = Poller(i) /\ collectors[i].pc \in {"waiting", "idle", "err_sleep"}

Tasks == {ReloadTask, MonitorTask} \cup {Poller(i) : i \in DOMAIN collectors}

\* the timer of the sleep or wait task t is in runs out
TimerExpires ==
    /\ Alive
    /\ \E t \in Tasks :
         /\ Sleeping(t)
         /\ t \notin expired
         /\ expired' = expired \cup {t}
         /\ UNCHANGED <<fetch, yaml, net>>
    /\ UNCHANGED <<now, kh, dataVars, writerVars, svcVars, sup, pools>>

InitLifecycle ==
    /\ now = 0
    /\ kh = KitHealth("kit-1")
    /\ InitData
    /\ InitNoService

LStart == Start(TRUE)

\* start() when the connection test fails: sys.exit(1)
StartDbDown ==
    /\ sup.start = "new"
    /\ sup' = [sup EXCEPT !.start = "exited"]
    /\ pools' = [pools EXCEPT !.db = "open"]
    /\ UNCHANGED <<now, kh, dataVars, writerVars, svcVars, expired, fetch, yaml, net>>

\* a kits.yaml whose second definition has the key api_url with no value
BadYamlKits ==
    <<KitConfig("kit-1", "Alpha", Url(TRUE, "a", TRUE), None, TRUE),
      KitConfig("kit-2", "Bravo", NoUrl, None, TRUE)>>

\* the definitions _sync_yaml_to_database handles before
\* kit['api_url'].rstrip('/') raises on an api_url that is None
RECURSIVE SyncedBeforeRaise(_)
SyncedBeforeRaise(yaml_kits) ==
    IF yaml_kits = <<>> \/ Head(yaml_kits).api_url = NoUrl THEN <<>>
    ELSE <<Head(yaml_kits)>> \o SyncedBeforeRaise(Tail(yaml_kits))

_sync_yaml_raises(yaml_kits) ==
    \E i \in DOMAIN yaml_kits : yaml_kits[i].api_url = NoUrl

\* start() with that kits.yaml: the connection test passes, load_config
\* raises out of _sync_yaml_to_database, start() raises and the except
\* clause of main() calls sys.exit(1)
StartBadYaml ==
    /\ sup.start = "new"
    /\ _sync_yaml_raises(BadYamlKits)
    /\ kits' = _sync_yaml_to_database(kits, SyncedBeforeRaise(BadYamlKits),
                                      fetch_kits_from_db(kits, TRUE))
    /\ sup' = [sup EXCEPT !.start = "fatal"]
    /\ pools' = [pools EXCEPT !.db = "open"]
    /\ UNCHANGED <<now, kh, dataVars, writerVars, collectors, svc_kits,
                   started, shutdown, nops, db_kits, expired, fetch, yaml, net>>

LInitDone ==
    /\ Alive
    /\ \E i \in DOMAIN collectors :
         \E res \in SvcStatusResponses(collectors[i]) : CInitDone(i, res, "ok")

LDronesDone ==
    /\ Alive
    /\ \E i \in DOMAIN collectors :
         \E res \in SvcDroneResponses : CDronesDone(i, res, <<>>)

LSignalsDone ==
    /\ Alive
    /\ \E i \in DOMAIN collectors : CSignalsDone(i, Fetched("none", <<>>), <<>>)

LGatherDone ==
    /\ Alive
    /\ \E i \in DOMAIN collectors : CGatherDone(i, "ok")

\* wait_for(shutdown_event.wait(), timeout=delay) returns: break when the
\* event is set, else the next pass of the loop
LWaitDoneOf(i) ==
    LET c == collectors[i] IN
    /\ Alive
    /\ c.pc = "waiting"
    /\ WaitOver(Poller(i), TRUE)
    /\ MayLoop(c, MaxLifeCycles)
    /\ SetCollector(i, IF shutdown THEN [c EXCEPT !.pc = "done"]
                       ELSE LoopTop(c))
    /\ expired' = expired \ {Poller(i)}
    /\ UNCHANGED <<fetch, yaml, net>>
    /\ UNCHANGED <<now, kh, dataVars, writerVars, kits, svc_kits, started,
                   shutdown, nops, db_kits, sup, pools>>

LWaitDone == \E i \in DOMAIN collectors : LWaitDoneOf(i)

\* kit_reload_loop: asyncio.sleep(KIT_RELOAD_INTERVAL) returns; break when
\* the event is set, else reload_kits and the next sleep
LReload ==
    LET loaded == fetch_kits_from_db(kits, TRUE)
        r == reload_kits(collectors, svc_kits, loaded)
    IN
    /\ Alive
    /\ sup.reload = "sleep"
    /\ WaitOver(ReloadTask, FALSE)
    /\ expired' = expired \ {ReloadTask}
    /\ UNCHANGED <<fetch, yaml, net>>
    /\ IF shutdown
       THEN /\ sup' = [sup EXCEPT !.reload = "done"]
            /\ UNCHANGED <<collectors, svc_kits, db_kits>>
       ELSE /\ Len(r.collectors) <= MaxCollectors
            /\ db_kits' = loaded
            /\ collectors' = r.collectors
            /\ svc_kits' = r.svc_kits
            /\ UNCHANGED sup
    /\ UNCHANGED <<now, kh, dataVars, writerVars, kits, started, shutdown,
                   nops, pools>>

\* monitor_health: asyncio.sleep(60) returns; break when the event is set,
\* else mark_stale on the health of every collector of self.kits
LMonitor ==
    /\ Alive
    /\ sup.monitor = "sleep"
    /\ WaitOver(MonitorTask, FALSE)
    /\ expired' = expired \ {MonitorTask}
    /\ UNCHANGED <<fetch, yaml, net>>
    /\ IF shutdown
       THEN /\ sup' = [sup EXCEPT !.monitor = "done"]
            /\ UNCHANGED collectors
       ELSE /\ collectors' =
                 [i \in DOMAIN collectors |->
                    IF i \in Range(svc_kits) /\ collectors[i].health_ref # 0
                    THEN [collectors[i] EXCEPT !.health = mark_stale(@, now)]
                    ELSE collectors[i]]
            /\ UNCHANGED sup
    /\ UNCHANGED <<now, kh, dataVars, writerVars, kits, svc_kits, started,
                   shutdown, nops, db_kits, pools>>

LApiCreateKit ==
    /\ Alive
    /\ ~shutdown
    /\ ApiCreateKit

\* SIGTERM / SIGINT: signal_handler
LSignal ==
    /\ sup.start = "blocked"
    /\ SetShutdown

\* CollectorService.shutdown() up to its await of client.aclose()
LShutdownCall ==
    /\ Alive
    /\ sup.shutdown_call = "none"
    /\ shutdown' = TRUE
    /\ sup' = [sup EXCEPT !.shutdown_call = "aclose"]
    /\ UNCHANGED <<now, kh, dataVars, writerVars, kits, collectors, svc_kits,
                   started, nops, db_kits, pools, expired, fetch, yaml, net>>

\* shutdown() from the return of client.aclose(): the client is closed,
\* then db.close() disposes the engine
LShutdownClose ==
    /\ sup.shutdown_call = "aclose"
    /\ sup' = [sup EXCEPT !.shutdown_call = "done"]
    /\ pools' = [client |-> "closed", db |-> "closed"]
    /\ UNCHANGED <<now, kh, dataVars, writerVars, svcVars, expired, fetch, yaml, net>>

\* start(): shutdown_event.wait() returns, the gather of self.tasks begins
LStartWake ==
    /\ sup.start = "blocked"
    /\ shutdown
    /\ sup' = [sup EXCEPT !.start = "gathering"]
    /\ UNCHANGED <<now, kh, dataVars, writerVars, svcVars, pools, expired, fetch, yaml, net>>

\* start(): the gather returns once every task of self.tasks has ended
\* (returned or raised: return_exceptions=True)
LStartReturn ==
    /\ sup.start = "gathering"
    /\ sup.reload = "done"
    /\ sup.monitor = "done"
    /\ \A i \in DOMAIN collectors : collectors[i].pc \in {"done", "crashed"}
    /\ sup' = [sup EXCEPT !.start = "returned"]
    /\ UNCHANGED <<now, kh, dataVars, writerVars, svcVars, pools, expired, fetch, yaml, net>>

NextLifecycle ==
    \/ LStart \/ StartDbDown \/ StartBadYaml
    \/ LInitDone \/ LDronesDone \/ LSignalsDone \/ LGatherDone
    \/ LWaitDone
    \/ LReload \/ LMonitor \/ TimerExpires
    \/ LApiCreateKit
    \/ LSignal \/ LShutdownCall \/ LShutdownClose
    \/ LStartWake \/ LStartReturn

SpecLifecycle == InitLifecycle /\ [][NextLifecycle]_vars

\* ------------------------------------------------------------------------
\* C16: the HTTP client and the database engine are released only after
\* the shutdown signal is set and every spawned task has ended: every
\* collector (those added by a reload as well), the reload loop and the
\* health monitor; no collector is in a cycle once a pool is released.
\* ------------------------------------------------------------------------
PoolsReleased == pools.client = "closed" \/ pools.db = "closed"

AllTasksExited ==
    /\ sup.reload = "done"
    /\ sup.monitor = "done"
    /\ \A i \in DOMAIN collectors : collectors[i].pc \in {"done", "crashed"}

C16_ShutdownOrder ==
    PoolsReleased => (shutdown /\ AllTasksExited)

\* both pools are released while the collector a reload added awaits the
\* fetches of a cycle
C16_Witness ==
    /\ pools.client = "closed"
    /\ pools.db = "closed"
    /\ Len(collectors) = 3
    /\ collectors[3].pc = "polling"

\* ------------------------------------------------------------------------
\* C17: once the shutdown signal has fired, every task that is in a sleep
\* or wait (a collector between cycles, the reload loop, the health
\* monitor) can leave it at once, whether or not its timer has run out.
\* ------------------------------------------------------------------------
C17_WaitsRaceShutdown ==
    (shutdown /\ Alive) =>
       /\ \A i \in DOMAIN collectors :
            collectors[i].pc = "waiting" => ENABLED LWaitDoneOf(i)
       /\ sup.reload = "sleep" => ENABLED LReload
       /\ sup.monitor = "sleep" => ENABLED LMonitor

\* the second half of the claim: after the signal no task starts a poll
\* cycle, a reload pass or a health report
C17_NoWorkAfterSignal ==
    [][shutdown =>
         /\ Len(collectors') = Len(collectors)
         /\ svc_kits' = svc_kits
         /\ db_kits' = db_kits
         /\ \A i \in DOMAIN collectors :
              /\ collectors[i].pc \in {"waiting", "idle", "err_sleep"} =>
                   collectors'[i].pc \in {collectors[i].pc, "done"}
              /\ collectors'[i].health.status = "stale" =>
                   collectors[i].health.status = "stale"]_vars

\* the signal has fired, the reload loop and the health monitor are still
\* in their sleeps, whose timers have not run out; a collector has left its
\* wait already
C17_Witness ==
    /\ shutdown
    /\ Alive
    /\ sup.reload = "sleep"
    /\ sup.monitor = "sleep"
    /\ ReloadTask \notin expired
    /\ MonitorTask \notin expired
    /\ \E i \in DOMAIN collectors :
         collectors[i].pc = "done" /\ collectors[i].health.total_requests > 0

\* ------------------------------------------------------------------------
\* C20: when the connection test of start() fails the process ends before
\* any kit is loaded, the HTTP client is created or a task is spawned; and
\* no other failure ends the process.
\* ------------------------------------------------------------------------
NothingStarted ==
    /\ ~started
    /\ collectors = <<>>
    /\ svc_kits = <<>>
    /\ db_kits = <<>>
    /\ kits = {}
    /\ pools.client = "none"
    /\ sup.reload = "none"
    /\ sup.monitor = "none"

C20_HaltsBeforeLoading ==
    sup.start = "exited" => NothingStarted

C20_OnlyFatalFailure ==
    /\ C20_HaltsBeforeLoading
    /\ sup.start # "fatal"

\* the process has ended by the except clause of main() although the
\* connection test passed; the first definition of kits.yaml is stored
C20_Witness ==
    /\ sup.start = "fatal"
    /\ pools.db = "open"
    /\ kits # {}
    /\ collectors = <<>>

\* ------------------------------------------------------------------------
\* SpecIsolation: the collectors of two kits side by side, each kit
\* answering or failing every fetch on its own
\* ------------------------------------------------------------------------
IsoDroneResponses == {Fetched("none", <<>>), Fetched("json", <<>>)}

InitIsolation ==
    /\ now = 0
    /\ kh = KitHealth("kit-1")
    /\ InitData
    /\ InitNoService

IDronesDone ==
    \E i \in DOMAIN collectors :
        \E res \in IsoDroneResponses : CDronesDone(i, res, <<>>)

IWaitDone == \E i \in DOMAIN collectors : CWaitDone(i, MaxIsoCycles)

NextIsolation ==
    \/ SStart \/ SInitDone \/ IDronesDone \/ SSignalsDone \/ SGatherDone
    \/ IWaitDone

SpecIsolation == InitIsolation /\ [][NextIsolation]_vars

\* ------------------------------------------------------------------------
\* C19: a failed fetch or a failed cycle of one collector changes nothing
\* of any other collector (health, counters, enabled, delay, position in
\* its cycle), in every interleaving; the failed cycle sets the
\* collector's own next wait to its own backoff.
\* ------------------------------------------------------------------------
FailedFetch(i) ==
    \/ collectors[i].d_res = "pending" /\ collectors'[i].d_res = "false"
    \/ collectors[i].s_res = "pending" /\ collectors'[i].s_res = "false"

FailedCycle(i) ==
    collectors'[i].health.failed_requests > collectors[i].health.failed_requests

C19_FailureIsolation ==
    [][\A i \in DOMAIN collectors :
         (i \in DOMAIN collectors' /\ (FailedFetch(i) \/ FailedCycle(i))) =>
           /\ \A j \in DOMAIN collectors \ {i} : collectors'[j] = collectors[j]
           /\ FailedCycle(i) =>
                collectors'[i].delay = collectors'[i].health.backoff_delay]_vars

\* one collector has failed twice in a row and backs off 20 s while the
\* other is online with two successes, no failure and the plain interval
C19_Witness ==
    \E i \in DOMAIN collectors : \E j \in DOMAIN collectors :
      /\ i # j
      /\ collectors[i].health.consecutive_failures = 2
      /\ collectors[i].delay = 20
      /\ collectors[j].health.status = "online"
      /\ collectors[j].health.successful_requests = 2
      /\ collectors[j].health.failed_requests = 0
      /\ collectors[j].delay = POLL_INTERVAL

\* ------------------------------------------------------------------------
\* C21: load_config never returns as enabled a kit whose api_url has a row
\* in the kits table with enabled = false, also when kits.yaml lists that
\* api_url; so start() creates no collector for a kit disabled in the
\* table.
\* ------------------------------------------------------------------------
StartStep == ~started /\ started'

DisabledInStore(T, api_url) ==
    \E r \in T :
        ~r.enabled /\ normalize_url(r.api_url) = normalize_url(api_url)

C21_StoreDisablesSource ==
    [][StartStep =>
         /\ \A k \in DOMAIN db_kits' :
               db_kits'[k].enabled => ~DisabledInStore(kits, db_kits'[k].api_url)
         /\ \A i \in DOMAIN collectors' :
               ~DisabledInStore(kits, collectors'[i].api_url)]_vars

\* the service started on the table with both kits disabled, and the
\* collector of the kit at a, still disabled in the table, is polling it
C21_Witness ==
    /\ started
    /\ \E r \in kits : r.kit_id = "kit-1" /\ ~r.enabled /\ r.api_url.host = "a"
    /\ \E i \in Range(svc_kits) :
          /\ collectors[i].api_url.host = "a"
          /\ collectors[i].enabled
          /\ collectors[i].pc = "polling"

\* ------------------------------------------------------------------------
\* SpecStop: one KitCollector task, created enabled or disabled, against an
\* unreliable kit, with the shutdown signal arriving at any moment
\* ------------------------------------------------------------------------
InitStop ==
    /\ now = 0
    /\ kh = KitHealth("kit-1")
    /\ InitData
    /\ kits = {}
    /\ \E e \in BOOLEAN :
          collectors = <<KitCollector(KitConfig("kit-cfg-7", None,
                                                Url(TRUE, "a", FALSE), None, e))>>
    /\ svc_kits = <<1>>
    /\ started = TRUE
    /\ shutdown = FALSE
    /\ nops = 0
    /\ db_kits = <<>>
    /\ sup = Supervising
    /\ pools = OpenPools
    /\ expired = {}
    /\ fetch = NoFetch
    /\ yaml = NoLoads
    /\ net = "any"

TWaitDone == CWaitDone(1, MaxStopCycles)

TErrSleepDone == CErrSleepDone(1, MaxStopCycles)

TIdleDone == CIdleDone(1, MaxStopCycles)

NextStop ==
    \/ PInitDone \/ PDronesDone \/ PSignalsDone \/ PGatherDone \/ PStatusDone
    \/ TWaitDone \/ TErrSleepDone \/ TIdleDone
    \/ SetShutdown

SpecStop == InitStop /\ [][NextStop]_vars

\* ------------------------------------------------------------------------
\* C22: a collector that is disabled from its creation makes no HTTP
\* request until shutdown (no /drones, /signals or /status fetch, and no
\* first /status fetch for its identity): it is never awaiting a fetch and
\* holds nothing a response gave it; it only sleeps.
\* ------------------------------------------------------------------------
FetchPcs == {"init_fetch", "polling", "status_fetch"}

C22_DisabledNoNetwork ==
    \A i \in DOMAIN collectors :
        ~collectors[i].enabled =>
            /\ collectors[i].pc \notin FetchPcs
            /\ collectors[i].probe_id = None

\* once in its loop the disabled collector only sleeps: a step of it
\* leaves it asleep or ends it, and writes nothing
C22_IdleLoopOnlySleeps ==
    [][\A i \in DOMAIN collectors :
         (~collectors[i].enabled /\ collectors[i].pc = "idle") =>
            /\ collectors'[i] \in {collectors[i],
                                  [collectors[i] EXCEPT !.pc = "done"]}
            /\ UNCHANGED <<dataVars, kits>>]_vars

\* the disabled collector sleeps in its loop after its first /status fetch
\* gave it the kit's identity and a system_health row was written from it
C22_Witness ==
    /\ ~collectors[1].enabled
    /\ collectors[1].pc = "idle"
    /\ collectors[1].probe_id = "wd-9f21"
    /\ collectors[1].kit_id = "wd-9f21"
    /\ \E r \in system_health : r.kit_id = "wd-9f21"

\* ------------------------------------------------------------------------
\* C30: when the shutdown signal has fired, a collector's wait between two
\* cycles ends at once and run() returns; after the signal no collector
\* starts a poll cycle (the cycle in progress when it fired is the last).
\* ------------------------------------------------------------------------
StartsCycle(i) ==
    collectors'[i].pc = "polling" /\ collectors[i].pc # "polling"

BothFetchesFailed(c) == c.d_res = "false" /\ c.s_res = "false"

RecordedFailure(i) ==
    /\ collectors'[i].health.status = "offline"
    /\ collectors'[i].health.consecutive_failures =
           collectors[i].health.consecutive_failures + 1
    /\ collectors'[i].health.failed_requests =
           collectors[i].health.failed_requests + 1

C23_TelemetryDecidesCycle ==
    [][(CycleEnds(1) /\ BothFetchesFailed(collectors[1])) =>
          RecordedFailure(1)]_vars

\* the same for the cycles that make no /status fetch
C23_FailsWithoutProbe ==
    [][(CycleEnds(1) /\ BothFetchesFailed(collectors[1])
          /\ collectors[1].pc = "polling") => RecordedFailure(1)]_vars

\* the sixth cycle: both fetches failed, the /status fetch answered, and
\* the cycle is recorded as a success after five failures
C23_Witness ==
    /\ collectors[1].pc = "waiting"
    /\ BothFetchesFailed(collectors[1])
    /\ collectors[1].health.status = "online"
    /\ collectors[1].health.total_requests = 6
    /\ collectors[1].health.failed_requests = 5
    /\ collectors[1].health.successful_requests = 1
    /\ collectors[1].delay = POLL_INTERVAL

\* ------------------------------------------------------------------------
\* C24: after each cycle the collector waits before the next one: exactly
\* POLL_INTERVAL after a cycle recorded as a success, and
\* get_next_poll_delay() after a cycle recorded as a failure, which then
\* equals backoff_delay = min(INITIAL_BACKOFF * 2^consecutive_failures,
\* MAX_BACKOFF) and is never 0; get_next_poll_delay() is 0 only while the
\* status is online.
\* ------------------------------------------------------------------------
\* the seconds the task waits where it is suspended after a cycle
WaitAfterCycle(c) == IF c.pc = "err_sleep" THEN POLL_INTERVAL ELSE c.delay

RecordedAsFailure(i) ==
    collectors'[i].health.failed_requests =
        collectors[i].health.failed_requests + 1

WaitRule(i) ==
    LET h == collectors'[i].health
        wait == WaitAfterCycle(collectors'[i])
    IN IF RecordedAsFailure(i)
       THEN /\ wait = get_next_poll_delay(h)
            /\ wait = Min(INITIAL_BACKOFF * (2 ^ h.consecutive_failures),
                          MAX_BACKOFF)
            /\ wait # 0
       ELSE wait = POLL_INTERVAL

C24_WaitAfterCycle ==
    /\ [](get_next_poll_delay(collectors[1].health) = 0
            => collectors[1].health.status = "online")
    /\ [][CycleEnds(1) => WaitRule(1)]_vars

\* the same for the cycles that reach run()'s "Calculate next poll delay"
C24_WaitAfterCycleNoRaise ==
    /\ [](get_next_poll_delay(collectors[1].health) = 0
            => collectors[1].health.status = "online")
    /\ [][(CycleEnds(1) /\ collectors'[1].pc = "waiting") => WaitRule(1)]_vars

\* a cycle the except clause recorded as the second failure in a row: the
\* backoff is 20 s and the task sleeps POLL_INTERVAL
C24_Witness ==
    /\ collectors[1].pc = "err_sleep"
    /\ collectors[1].health.status = "offline"
    /\ collectors[1].health.consecutive_failures = 2
    /\ get_next_poll_delay(collectors[1].health) = 20
    /\ WaitAfterCycle(collectors[1]) = POLL_INTERVAL

\* ------------------------------------------------------------------------
\* SpecFetch: one fetch_json call against a kit that may time out, refuse,
\* reset, answer with an error status or with a body, at every attempt
\* ------------------------------------------------------------------------
Endpoints == {"/drones", "/signals", "/status"}
Bodies == {"{}", "{\"drones\": []}"}

InitFetch ==
    /\ now = 0
    /\ kh = KitHealth("kit-1")
    /\ InitData
    /\ InitNoService

FCall ==
    /\ fetch.pc = "idle"
    /\ \E e \in Endpoints :
         fetch' = [FetchCall("request", e, 0, <<>>, <<>>, None)
                      EXCEPT !.signal_at = fetch.signal_at]
    /\ UNCHANGED <<now, kh, dataVars, writerVars, svcVars, lifeVars, yaml, net>>

\* the attempt in flight ends
FAttemptDone ==
    /\ fetch.pc = "request"
    /\ \E o \in AttemptOutcomes :
         \E b \in (IF o = "ok" THEN Bodies ELSE {None}) :
            fetch' = fetch_json(fetch, o, b)
    /\ UNCHANGED <<now, kh, dataVars, writerVars, svcVars, lifeVars, yaml, net>>

\* the sleep before a retry ends: fetch_json(endpoint, retry + 1)
FSleepDone ==
    /\ fetch.pc = "sleep"
    /\ fetch' = [fetch EXCEPT !.pc = "request", !.retry = @ + 1]
    /\ UNCHANGED <<now, kh, dataVars, writerVars, svcVars, lifeVars, yaml, net>>

\* the attempts of the call started so far
AttemptsStarted(f) == Len(f.log) + (IF f.pc = "request" THEN 1 ELSE 0)

\* signal_handler while the call is idle, in flight, asleep or back
FSignal ==
    /\ ~shutdown
    /\ shutdown' = TRUE
    /\ fetch' = [fetch EXCEPT !.signal_at = AttemptsStarted(fetch)]
    /\ UNCHANGED <<now, kh, dataVars, writerVars, kits, collectors, svc_kits,
                   started, nops, db_kits, lifeVars, yaml, net>>

NextFetch == FCall \/ FAttemptDone \/ FSleepDone \/ FSignal

SpecFetch == InitFetch /\ [][NextFetch]_vars

\* client.get carries timeout=REQUEST_TIMEOUT and asyncio.sleep is finite,
\* so an attempt in flight ends and a sleep ends
SpecFetchFair ==
    SpecFetch /\ WF_vars(FAttemptDone) /\ WF_vars(FSleepDone)

\* ------------------------------------------------------------------------
\* C25: a fetch always terminates.  When every attempt times out it makes
\* exactly MAX_RETRIES + 1 attempts, sleeps attempt * 1 s before the
\* attempt-th retry and returns None; when an attempt succeeds it returns
\* the body of that attempt and makes no further attempt.
\* ------------------------------------------------------------------------
AllTimedOut(f) ==
    f.log # <<>> /\ \A k \in DOMAIN f.log : f.log[k].outcome = "timeout"

C25_FetchTerminates ==
    /\ []((fetch.pc = "returned" /\ AllTimedOut(fetch)) =>
             /\ Len(fetch.log) = MAX_RETRIES + 1
             /\ fetch.waits = [k \in 1 .. MAX_RETRIES |-> k * 1]
             /\ fetch.result = None)
    /\ [](\A k \in DOMAIN fetch.log :
             fetch.log[k].outcome = "ok" =>
                /\ k = Len(fetch.log)
                /\ fetch.pc = "returned"
                /\ fetch.result = fetch.log[k].body)
    /\ [][fetch.pc = "returned" =>
             /\ fetch'.pc = "returned"
             /\ fetch'.log = fetch.log
             /\ fetch'.waits = fetch.waits
             /\ fetch'.result = fetch.result]_vars
    /\ (fetch.pc = "request") ~> (fetch.pc = "returned")

\* four attempts that all timed out, with sleeps of 1, 2 and 3 s between
C25_Witness ==
    /\ fetch.pc = "returned"
    /\ AllTimedOut(fetch)
    /\ Len(fetch.log) = 4
    /\ fetch.waits = <<1, 2, 3>>
    /\ fetch.result = None

\* ------------------------------------------------------------------------
\* C26: an attempt that fails with a transport error other than a timeout,
\* with a non-2xx status or with a malformed JSON body ends the fetch: no
\* retry and no sleep follow it and the fetch returns None; met at the
\* first attempt, the fetch makes exactly one request.
\* ------------------------------------------------------------------------
NoRetryOutcomes == {"connect_refused", "connect_reset", "http_status", "bad_json"}

TransientOutcomes == {"timeout", "connect_refused", "connect_reset"}

C27_TransientRetried ==
    (/\ fetch.pc = "returned"
     /\ fetch.log # <<>>
     /\ fetch.log[Len(fetch.log)].outcome \in TransientOutcomes)
        => /\ Len(fetch.log) = MAX_RETRIES + 1
           /\ fetch.waits = [k \in 1 .. MAX_RETRIES |-> k * 1]

\* the fetch was given up at its first attempt, a refused connection
C27_Witness ==
    /\ fetch.pc = "returned"
    /\ fetch.result = None
    /\ Len(fetch.log) = 1
    /\ fetch.log[1].outcome = "connect_refused"
    /\ fetch.waits = <<>>

\* timeouts, the one failure the code retries, are retried to the bound
C27_TimeoutsRetried ==
    (/\ fetch.pc = "returned"
     /\ fetch.log # <<>>
     /\ fetch.log[Len(fetch.log)].outcome = "timeout")
        => /\ Len(fetch.log) = MAX_RETRIES + 1
           /\ fetch.waits = [k \in 1 .. MAX_RETRIES |-> k * 1]

\* ------------------------------------------------------------------------
\* C28: each completed poll cycle of an enabled collector updates its
\* KitHealth exactly once: total_requests grows by exactly 1 per cycle,
\* through one mark_success or one mark_failure, however many fetches the
\* cycle made, and no other step of the task moves the counters; the loop
\* of a disabled collector changes no health field.
\* ------------------------------------------------------------------------
C28_OneUpdatePerCycle ==
    [][\A i \in DOMAIN collectors :
         LET h == collectors[i].health
             g == collectors'[i].health
         IN
         /\ CycleEnds(i) =>
               /\ g.total_requests = h.total_requests + 1
               /\ \/ /\ g.successful_requests = h.successful_requests + 1
                     /\ g.failed_requests = h.failed_requests
                  \/ /\ g.failed_requests = h.failed_requests + 1
                     /\ g.successful_requests = h.successful_requests
         /\ ~CycleEnds(i) => Counters(g) = Counters(h)
         /\ (~collectors[i].enabled /\ collectors[i].pc = "idle") => g = h]_vars

\* six cycles recorded, the sixth with three fetches (/drones, /signals
\* and /status), none of them by the except clause
C28_Witness ==
    /\ collectors[1].pc = "waiting"
    /\ collectors[1].status_poll_counter = 0
    /\ collectors[1].d_res = "true"
    /\ collectors[1].s_res = "true"
    /\ collectors[1].health.total_requests = 6
    /\ collectors[1].health.successful_requests = 4
    /\ collectors[1].health.failed_requests = 2

\* ------------------------------------------------------------------------
\* C29: with k = STATUS_POLL_INTERVAL div POLL_INTERVAL, a collector makes
\* the /status fetch in exactly every k-th poll cycle counted from its
\* start (cycles k, 2k, ...) and in no other cycle; failed cycles count
\* like successful ones, and the /status fetch starts after both telemetry
\* fetches of the cycle have finished.
\* ------------------------------------------------------------------------
\* the number of the cycle collector i is in (every finished cycle added 1
\* to total_requests)
CycleNo(i) == collectors[i].health.total_requests + 1

ProbeStarts(i) ==
    collectors[i].pc = "polling" /\ collectors'[i].pc = "status_fetch"

EndsWithoutProbe(i) == CycleEnds(i) /\ collectors[i].pc = "polling"

ProbeRule(i) ==
    /\ ProbeStarts(i) =>
          /\ CycleNo(i) % status_interval_cycles = 0
          /\ collectors[i].d_res # "pending"
          /\ collectors[i].s_res # "pending"
    /\ EndsWithoutProbe(i) => CycleNo(i) % status_interval_cycles # 0

C29_StatusEveryKthCycle == [][ProbeRule(1)]_vars

\* the same up to the first /status fetch of the loop
C29_FirstProbeInKthCycle ==
    [][CycleNo(1) <= status_interval_cycles => ProbeRule(1)]_vars

\* the seventh cycle makes a /status fetch: the one of the sixth cycle
\* raised and left status_poll_counter where it was
C29_Witness ==
    /\ collectors[1].pc = "status_fetch"
    /\ CycleNo(1) = 7
    /\ collectors[1].status_poll_counter = 7

\* ------------------------------------------------------------------------
\* C31: once the shutdown signal has fired, a fetch starts no further
\* inline retry attempt: only the request in flight at that moment may
\* still complete or time out, so a fetch that had started n >= 1 attempts
\* when the signal fired never starts attempt n + 1.
\* ------------------------------------------------------------------------
C31_NoRetryAfterSignal ==
    (shutdown /\ fetch.signal_at >= 1) =>
        AttemptsStarted(fetch) = fetch.signal_at

\* the signal fired during the first attempt; the fetch went on to sleep
\* 1, 2 and 3 s and to make three more attempts before it returned
C31_Witness ==
    /\ shutdown
    /\ fetch.signal_at = 1
    /\ fetch.pc = "returned"
    /\ Len(fetch.log) = 4
    /\ fetch.waits = <<1, 2, 3>>

\* ------------------------------------------------------------------------
\* SpecLock: start() and the passes of kit_reload_loop, each pass in two
\* steps (entering 'async with self._kit_lock', then the body and the
\* release), with an operator who administers the kits table
\* ------------------------------------------------------------------------
\* reload_kits enters 'async with self._kit_lock'
KLockAcquire ==
    /\ started
    /\ ~shutdown
    /\ sup.reload = "sleep"
    /\ sup.kit_lock = "free"
    /\ sup' = [sup EXCEPT !.kit_lock = "reload", !.reload = "locked"]
    /\ UNCHANGED <<now, kh, dataVars, writerVars, svcVars, pools, expired, fetch, yaml, net>>

\* the body of reload_kits, and the release of the lock on leaving it
KReloadLocked ==
    \E ok \in BOOLEAN :
        LET loaded == fetch_kits_from_db(kits, ok)
            r == reload_kits(collectors, svc_kits, loaded)
        IN
        /\ sup.kit_lock = "reload"
        /\ sup.reload = "locked"
        /\ Len(r.collectors) <= MaxCollectors
        /\ db_kits' = loaded
        /\ collectors' = r.collectors
        /\ svc_kits' = r.svc_kits
        /\ sup' = [sup EXCEPT !.kit_lock = "free", !.reload = "sleep"]
        /\ UNCHANGED <<now, kh, dataVars, writerVars, kits, started, shutdown,
                       nops, pools, expired, fetch, yaml, net>>

NextLock ==
    \/ SStart \/ KLockAcquire \/ KReloadLocked
    \/ ApiCreateKit \/ ApiUpdateKit \/ ApiDeleteKit
    \/ SInitDone

SpecLock == InitService /\ [][NextLock]_vars

\* ------------------------------------------------------------------------
\* C32: every change of the set of running collectors (self.kits), the
\* first filling by start() as well as the additions and removals of
\* reload_kits, is made while _kit_lock is held; no task changes the set
\* without holding the lock.
\* ------------------------------------------------------------------------
C32_MutationsUnderLock ==
    [][svc_kits' # svc_kits => sup.kit_lock # "free"]_vars

\* the changes made after start() are made by reload_kits inside the lock
C32_ReloadUnderLock ==
    [][(started /\ svc_kits' # svc_kits) => sup.kit_lock = "reload"]_vars

\* start() has filled self.kits with the two collectors of kits.yaml and
\* created their tasks; the lock was never taken
C32_Witness ==
    /\ started
    /\ svc_kits = <<1, 2>>
    /\ sup.kit_lock = "free"
    /\ sup.reload = "sleep"
    /\ nops = 0
    /\ \A i \in DOMAIN collectors : collectors[i].pc = "init_fetch"

\* ------------------------------------------------------------------------
\* C33: a storage failure never fails a poll cycle: a cycle in which a
\* telemetry fetch succeeded is recorded as a success whether the writes of
\* its payload, of the health snapshot and of the kit metadata stored
\* every record, some or none (the cycles ended by the except clause did
\* not fail by the storage and are left out).
\* ------------------------------------------------------------------------
FetchSucceeded(c) == c.d_res = "true" \/ c.s_res = "true"

C33_StorageNeverFailsCycle ==
    [][(/\ CycleEnds(1)
        /\ collectors'[1].pc = "waiting"
        /\ FetchSucceeded(collectors[1])) => RecordedSuccess(1)]_vars

\* two cycles recorded as successes while no write of the run stored
\* anything: no payload row, no health row and no kits row exists
C33_Witness ==
    /\ collectors[1].pc = "waiting"
    /\ FetchSucceeded(collectors[1])
    /\ collectors[1].health.status = "online"
    /\ collectors[1].health.successful_requests = 2
    /\ collectors[1].health.failed_requests = 0
    /\ kits = {}
    /\ drones = {} /\ signals = {} /\ system_health = {}

\* ------------------------------------------------------------------------
\* C36: when reading the kits from the table fails during a reload pass,
\* the pass changes nothing: no running collector is disabled or taken out
\* of self.kits, and no collector is created.
\* ------------------------------------------------------------------------
\* this step is a reload pass whose read failed: the table holds enabled
\* rows and the pass got none
FailedReadStep ==
    /\ started
    /\ db_kits # <<>>
    /\ db_kits' = <<>>
    /\ \E r \in kits : r.enabled

C36_FailedReadChangesNothing ==
    [][FailedReadStep =>
         /\ svc_kits' = svc_kits
         /\ collectors' = collectors]_vars

\* the part that holds: a pass whose read failed creates no collector
C36_FailedReadSpawnsNone ==
    [][FailedReadStep => Len(collectors') = Len(collectors)]_vars

\* after a pass whose read failed: both collectors are disabled and out of
\* self.kits while their rows are still enabled in the table
C36_Witness ==
    /\ started
    /\ db_kits = <<>>
    /\ svc_kits = <<>>
    /\ Len(collectors) = 2
    /\ nops = 0
    /\ \A i \in DOMAIN collectors :
          /\ ~collectors[i].enabled
          /\ \E r \in kits : r.enabled /\ r.api_url = collectors[i].api_url

\* ------------------------------------------------------------------------
\* C37: a collector's update_kit_status never re-creates a row that was
\* deleted from the kits table: once the row of a running collector is
\* deleted it stays absent (until an admin call adds it again), so that the
\* next reload pass sees the kit as removed and disables its collector.
\* ------------------------------------------------------------------------
\* no row of T belongs to collector c: none has its endpoint, and none has
\* an id it was created with, took from /status or writes under.  Every
\* collector was created from a row with its endpoint and no admin call
\* changes a kit_id, so this holds only after the rows were deleted.
NoEntry(c, T) ==
    \A r \in T :
        /\ r.api_url # c.api_url
        /\ r.kit_id \notin {c.config_id, c.kit_id, c.loc_kit_id}

RowDeleted(i) == started /\ NoEntry(collectors[i], kits)

C37_DeletedStaysDeleted ==
    [][\A i \in DOMAIN collectors :
         (RowDeleted(i) /\ nops' = nops) =>
             NoEntry(collectors'[i], kits')]_vars

\* the part that holds: a reload pass that reads the table while the row is
\* absent disables the collector and takes it out of self.kits
C37_ReloadSeesDeletion ==
    [][\A i \in DOMAIN collectors :
         (RowDeleted(i) /\ ReloadStep /\ db_kits' # <<>>) =>
             /\ ~collectors'[i].enabled
             /\ i \notin {svc_kits'[j] : j \in DOMAIN svc_kits'}]_vars

\* one admin call was made and no row is disabled, so the one row that a
\* reload pass read was what the deletion of the first kit's row had left:
\* the pass disabled the collector, and a row with the collector's endpoint
\* is in the table again, enabled
C37_Witness ==
    /\ started
    /\ nops = 1
    /\ Len(db_kits) = 1
    /\ Len(collectors) = 2
    /\ ~collectors[1].enabled
    /\ \A j \in DOMAIN db_kits : db_kits[j].api_url # collectors[1].api_url
    /\ \A r \in kits : r.enabled
    /\ \E r \in kits :
          /\ r.kit_id = collectors[1].loc_kit_id
          /\ r.api_url = collectors[1].api_url

\* ------------------------------------------------------------------------
\* C39: after every cycle recorded as a failure, the cycles ended by the
\* except clause of run() included, the collector waits at least the
\* current backoff_delay before it starts its next cycle.
\* ------------------------------------------------------------------------
WaitsBackoff(i) ==
    WaitAfterCycle(collectors'[i]) >= collectors'[i].health.backoff_delay

C39_FailureWaitsBackoff ==
    [][(CycleEnds(1) /\ RecordedAsFailure(1)) => WaitsBackoff(1)]_vars

\* the same for the failed cycles that did not raise
C39_FailedFetchesWaitBackoff ==
    [][(CycleEnds(1) /\ RecordedAsFailure(1)
          /\ collectors'[1].pc = "waiting") => WaitsBackoff(1)]_vars

\* the first failure after five successes is a cycle ended by the except
\* clause: the backoff is 10 s and the task sleeps 5 s
C39_Witness ==
    /\ collectors[1].pc = "err_sleep"
    /\ collectors[1].health.successful_requests = 5
    /\ collectors[1].health.failed_requests = 1
    /\ collectors[1].health.backoff_delay = 10
    /\ WaitAfterCycle(collectors[1]) < collectors[1].health.backoff_delay

\* ------------------------------------------------------------------------
\* C40: in every reachable KitHealth state total_requests =
\* successful_requests + failed_requests, consecutive_failures <=
\* failed_requests, and the status is unknown exactly when total_requests
\* = 0, that is before the first recorded attempt.
\* ------------------------------------------------------------------------
C40_HealthCounters ==
    /\ kh.total_requests = kh.successful_requests + kh.failed_requests
    /\ kh.consecutive_failures <= kh.failed_requests
    /\ (kh.status = "unknown") <=> (kh.total_requests = 0)

\* a failure, a success and a failure, and then the kit was marked stale
C40_Witness ==
    /\ kh.status = "stale"
    /\ kh.successful_requests = 1
    /\ kh.failed_requests = 2
    /\ kh.consecutive_failures = 1
    /\ kh.total_requests = 3

\* ------------------------------------------------------------------------
\* SpecYaml: the service loads kits.yaml, again and again, each time with
\* the kit definitions the file holds then.
\* ------------------------------------------------------------------------
\* one entry of the 'kits' list of kits.yaml; None / NoUrl is a missing key
YamlKit(id, api_url) == [id |-> id, api_url |-> api_url]

YamlEntries ==
    {YamlKit(None, Url(TRUE, "a", FALSE)), YamlKit(None, Url(TRUE, "b", FALSE)),
     YamlKit("edge", Url(TRUE, "a", FALSE)), YamlKit(None, NoUrl)}

YamlFiles == SeqsUpTo(YamlEntries, MaxYamlKits)

\* f"kit-{i+1}" for the entry at index i of the list, counted from 0
PositionId(n) == <<"kit-1", "kit-2", "kit-3", "kit-4">>[n]

\* the entries that have an api_url, in the order of the file
WithUrl(file) == SelectSeq(file, LAMBDA k : k.api_url # NoUrl)

\* CollectorService._load_yaml_kits: an entry without 'api_url' is skipped,
\* an entry without 'id' gets kit-<its position in the list>
_load_yaml_kits(file) ==
    WithUrl([n \in DOMAIN file |->
                IF file[n].api_url # NoUrl /\ file[n].id = None
                THEN [file[n] EXCEPT !.id = PositionId(n)]
                ELSE file[n]])

\* the loaded entries as _sync_yaml_to_database reads them: kit.get('id',
\* ...) finds the id set above, and the name defaults to the id
YamlConfigs(loaded) ==
    [j \in DOMAIN loaded |->
        KitConfig(loaded[j].id, loaded[j].id, loaded[j].api_url, None, TRUE)]

InitYaml ==
    /\ now = 0
    /\ kh = KitHealth("kit-1")
    /\ InitData
    /\ InitNoService

\* load_config reads the file and adds its new kits to the table
YLoad ==
    \E file \in YamlFiles :
        LET loaded == _load_yaml_kits(file)
            yaml_kits == YamlConfigs(loaded)
            T1 == IF yaml_kits # <<>>
                  THEN _sync_yaml_to_database(kits, yaml_kits,
                                              fetch_kits_from_db(kits, TRUE))
                  ELSE kits
            refetched == fetch_kits_from_db(T1, TRUE)
        IN
        /\ yaml' = [prev_file |-> yaml.file, prev_kits |-> yaml.loaded,
                    file |-> file, loaded |-> loaded]
        /\ kits' = T1
        /\ db_kits' = IF refetched # <<>> THEN refetched ELSE yaml_kits
        /\ UNCHANGED <<now, kh, dataVars, writerVars, collectors, svc_kits,
                       started, shutdown, nops, lifeVars, fetch, net>>

NextYaml == YLoad

SpecYaml == InitYaml /\ [][NextYaml]_vars

\* ------------------------------------------------------------------------
\* C35: the synthetic id given to a kit definition without an id depends
\* only on the definition's endpoint: the same endpoint gets the same
\* synthetic id in every load, whatever its position in the list and
\* whatever other definitions the file holds.
\* ------------------------------------------------------------------------
\* the <<endpoint, id>> pairs of the entries of the file that had no id
SyntheticIds(file, loaded) ==
    {<<loaded[j].api_url, loaded[j].id>> :
        j \in {n \in DOMAIN loaded : WithUrl(file)[n].id = None}}

SameEndpointSameId(P, Q) ==
    \A p \in P, q \in Q : p[1] = q[1] => p[2] = q[2]

C35_IdFromEndpointOnly ==
    LET last == SyntheticIds(yaml.file, yaml.loaded)
        prev == SyntheticIds(yaml.prev_file, yaml.prev_kits)
    IN SameEndpointSameId(prev, last)

\* what holds: the id is the position of the entry in the list
C35_IdFromPosition ==
    \A n \in DOMAIN yaml.file :
        (yaml.file[n].api_url # NoUrl /\ yaml.file[n].id = None) =>
            \E j \in DOMAIN yaml.loaded :
                /\ yaml.loaded[j].api_url = yaml.file[n].api_url
                /\ yaml.loaded[j].id = PositionId(n)

\* endpoint a was first in the file and got kit-1; then a definition was
\* put before it, and the same endpoint got kit-2
C35_Witness ==
    /\ yaml.prev_file = <<YamlKit(None, Url(TRUE, "a", FALSE))>>
    /\ yaml.file = <<YamlKit(None, Url(TRUE, "b", FALSE)),
                     YamlKit(None, Url(TRUE, "a", FALSE))>>
    /\ <<Url(TRUE, "a", FALSE), "kit-1">>
           \in SyntheticIds(yaml.prev_file, yaml.prev_kits)
    /\ <<Url(TRUE, "a", FALSE), "kit-2">>
           \in SyntheticIds(yaml.file, yaml.loaded)

\* ------------------------------------------------------------------------
\* SpecUptime: one enabled collector and the clock.  The kit's API answers
\* anything at first (net = "any": a request may fail); from some point on
\* every request is answered with JSON (net = "up": of any shape), or with
\* JSON of the shape the collector reads (net = "wellformed").  The time
\* passes while the collector waits between two cycles.  No shutdown signal
\* arrives and no reload pass runs.
\* ------------------------------------------------------------------------
AnswerKinds ==
    CASE net = "any" -> {"none", "bad", "empty", "json"}
      [] net = "up" -> {"bad", "empty", "json"}
      [] OTHER -> {"empty", "json"}

Answers(S) == {res \in S : res.kind \in AnswerKinds}

UInitDone == \E res \in Answers(StatusResponses) : CInitDone(1, res, "ok")

UDronesDone ==
    \E res \in Answers(DroneResponses) : \E outs \in OutcomesFor(res.body) :
        CDronesDone(1, res, outs)

USignalsDone ==
    \E res \in Answers(SignalResponses) : \E outs \in OutcomesFor(res.body) :
        CSignalsDone(1, res, outs)

UGatherDone == \E out \in DbOutcomes : CGatherDone(1, out)

\* the wait after the cycle ends, c.delay seconds later
UWaitDone ==
    LET c == collectors[1] IN
    /\ c.pc = "waiting"
    /\ MayLoop(c, MaxUpCycles)
    /\ SetCollector(1, LoopTop(c))
    /\ now' = now + WaitAfterCycle(c)
    /\ UNCHANGED <<kh, dataVars, writerVars, kits, svc_kits, started,
                   shutdown, nops, db_kits, lifeVars, fetch, yaml, net>>

\* the kit comes up for good, while the collector has two cycles to go
UKitUp ==
    /\ net = "any"
    /\ collectors[1].pc # "crashed"
    /\ collectors[1].health.total_requests + 2 <= MaxUpCycles
    /\ net' \in {"up", "wellformed"}
    /\ UNCHANGED <<now, kh, dataVars, writerVars, svcVars, lifeVars, fetch, yaml>>

NextUptime ==
    \/ UInitDone \/ UDronesDone \/ USignalsDone \/ UGatherDone
    \/ UWaitDone \/ UKitUp

SpecUptime == InitPoller /\ [][NextUptime]_vars

\* every request carries timeout=REQUEST_TIMEOUT and every sleep is
\* finite, so each await of run() ends
SpecUptimeFair ==
    /\ SpecUptime
    /\ WF_vars(UInitDone) /\ WF_vars(UDronesDone) /\ WF_vars(USignalsDone)
    /\ WF_vars(UGatherDone) /\ WF_vars(UWaitDone)

\* ------------------------------------------------------------------------
\* C38: the last_seen a collector writes to the kits table is the time of
\* the kit's most recent successful cycle: a failed cycle never advances
\* the stored last_seen, so the stored last_seen never exceeds the
\* last_seen of the collector's KitHealth.
\* ------------------------------------------------------------------------
\* kits.last_seen of the row the collector writes; NoNum when it has none
StoredLastSeen(T, c) ==
    IF \E r \in T : r.kit_id = c.loc_kit_id
    THEN (CHOOSE r \in T : r.kit_id = c.loc_kit_id).last_seen
    ELSE NoNum

C38_StoredLastSeen ==
    /\ [](StoredLastSeen(kits, collectors[1]) <= collectors[1].health.last_seen)
    /\ [][(CycleEnds(1) /\ RecordedAsFailure(1)) =>
             StoredLastSeen(kits', collectors'[1]) =
                 StoredLastSeen(kits, collectors[1])]_vars

\* what holds: a successful cycle whose write is stored leaves the time of
\* that cycle in the table
C38_SuccessStoresLastSeen ==
    [][(CycleEnds(1) /\ RecordedSuccess(1) /\ kits' # kits) =>
          /\ StoredLastSeen(kits', collectors'[1]) = now
          /\ collectors'[1].health.last_seen = now]_vars

\* a success at time 0 and a failure 5 s later: the table says the kit was
\* last seen at 5, the KitHealth says at 0
C38_Witness ==
    /\ collectors[1].pc = "waiting"
    /\ collectors[1].health.status = "offline"
    /\ collectors[1].health.last_seen = 0
    /\ now = 5
    /\ StoredLastSeen(kits, collectors[1]) = 5

\* ------------------------------------------------------------------------
\* C34: the health state machine has no terminal state: after any number
\* of consecutive failures one successful cycle yields online, and from
\* online one failed cycle yields offline; under fair scheduling an enabled
\* collector whose fetches succeed from some point on is eventually
\* recorded online, and it keeps being polled for as long as no shutdown
\* is signaled.
\* ------------------------------------------------------------------------
CountedSuccess(i) ==
    collectors'[i].health.successful_requests =
        collectors[i].health.successful_requests + 1

\* one successful cycle yields online, one failed cycle yields offline
HealthFlips ==
    /\ [][(CycleEnds(1) /\ CountedSuccess(1)) =>
             /\ collectors'[1].health.status = "online"
             /\ collectors'[1].health.consecutive_failures = 0]_vars
    /\ [][(CycleEnds(1) /\ RecordedAsFailure(1)) =>
             collectors'[1].health.status = "offline"]_vars

CyclesLeft == collectors[1].health.total_requests < MaxUpCycles

RecordedOnline == collectors[1].health.status = "online"

C34_NoTerminalState ==
    /\ HealthFlips
    /\ (net # "any") ~> RecordedOnline
    /\ (~shutdown /\ CyclesLeft /\ collectors[1].pc \in {"init_fetch", "waiting"})
           ~> (collectors[1].pc = "polling")

\* what holds: the flips; a collector whose requests are all answered with
\* JSON of the shape it reads is recorded online and stays so; and the
\* collector that has entered its loop starts the next cycle after its wait
C34_WellFormedRecovers ==
    /\ HealthFlips
    /\ (net = "wellformed") ~> [](RecordedOnline)
    /\ (~shutdown /\ CyclesLeft /\ collectors[1].pc = "waiting")
           ~> (collectors[1].pc = "polling")

\* every request is answered, the first /status with JSON that is no
\* object: run() has raised out of _initialize, no cycle was ever recorded
\* and none will be
C34_Witness ==
    /\ net = "up"
    /\ ~shutdown
    /\ collectors[1].enabled
    /\ collectors[1].pc = "crashed"
    /\ collectors[1].health.status = "unknown"

\* the recovery: three failures in a row, then the kit is up and the next
\* cycle is recorded as a success
C34_RecoveryReached ==
    /\ net = "wellformed"
    /\ collectors[1].health.failed_requests = 3
    /\ collectors[1].health.successful_requests = 1
    /\ RecordedOnline
    /\ collectors[1].health.backoff_delay = INITIAL_BACKOFF

====
